---- MODULE Spec2Model ----
(***************************************************************************)
(* Model of the LLM-aware gateway's admission core: the per-cluster       *)
(* circuit breaker (package breaker), the token bucket (package limiter), *)
(* the vector agent (package vector) and the middleware chain (package    *)
(* middleware).                                                            *)
(*                                                                         *)
(* Time is a discrete clock `now`; time.Time values are clock readings and *)
(* time.Duration values are numbers of ticks.  Fractions (severity,        *)
(* recovery increment) are integers in hundredths.                         *)
(***************************************************************************)
EXTENDS Integers, Sequences, FiniteSets, TLC

VARIABLES
    now,        \* the reading time.Now() returns
    config,     \* clusterCircuitBreaker.config (*types.BreakerConfig)
    clusters,   \* clusterCircuitBreaker.clusters: the map id -> clusterBreaker
    published,  \* the cluster id the control plane publishes policies for
    last,       \* the call made by the last step: operation, arguments, result, state found
    probes,     \* history: successes recorded for a cluster since it last turned HALF_OPEN
    tb,         \* a limiter.TokenBucket: capacity, tokens, refillRate, lastRefill
    win,        \* history: the interval under observation and the Allow calls made in it
    req,        \* the request travelling through the middleware chain
    agent,      \* the vectorAgent: embedding service, cluster snapshot, cache
    threads,    \* the goroutines inside the vectorAgent: position and locals of each
    ce,         \* the clusteringEngine: cluster table, member index, vector store
    workers,    \* the goroutines inside the clusteringEngine: position and locals
    watcher,    \* the configWatcher, with the KV store and the watch stream it reads
    run         \* a run of Desensitize or PreprocessText: the text and the loop over the patterns

breakerVars == <<config, clusters, published, probes>>
bucketVars == <<tb, win>>
pipelineVars == <<req, agent, threads, ce, workers, watcher, run>>
vars == <<now, last, breakerVars, bucketVars, pipelineVars>>

-----------------------------------------------------------------------------
(* Bounds of the model *)

MaxTime == 4
MaxCount == 3
MaxThreshold == 2
MaxTimeout == 2
MaxCapacity == 2
MaxRate == 3
MaxCalls == 4
MaxRequests == 2
CacheTTL == 2

-----------------------------------------------------------------------------
(* types: breaker states, policies, configurations *)

BreakerStateClosed == "CLOSED"
BreakerStateOpen == "OPEN"
BreakerStateHalfOpen == "HALF_OPEN"
BreakerStates == {BreakerStateClosed, BreakerStateOpen, BreakerStateHalfOpen}

PolicyTypeRateLimit == "RATE_LIMIT"
PolicyTypeCircuitBreak == "CIRCUIT_BREAK"

\* The zero time.Time (year 1): earlier than every clock reading.
ZeroTime == 0
\* The first clock reading.
StartTime == 1

\* Pointers are sequences: the nil pointer is empty, any other holds its target.
Nil == <<>>
Ptr(x) == <<x>>
Deref(p) == p[1]

\* What a call on a cluster without an entry finds, and a nil error.
NoBreaker == "absent"
Ok == "nil"

\* Cluster ids the callers use: the empty id and two cluster ids.
ClusterIDs == {"", "K1", "K2"}

\* The keys under /policies/ a run may use: a cluster id, or the bare prefix,
\* whose cluster id is empty.  K2 stays an unknown cluster.
PolicyKeys == {"K1", ""}

\* severity >= 0.8 opens the breaker at once (in hundredths).
ImmediateBreakSeverity == 80

\* ccb.config as loaded at start-up.
Configs ==
    [FailureThreshold : 1..MaxThreshold,
     RecoveryTimeout : {MaxTimeout},
     RecoveryIncrement : {100}]

\* Policies the watcher may deliver: well-formed circuit-break policies on both
\* sides of the severity limit, a circuit-break policy without its parameter
\* block, and a rate-limit policy.
Policies ==
    { [PolicyType |-> PolicyTypeCircuitBreak, Severity |-> 80,
       CircuitBreak |-> Ptr([BreakDuration |-> 2, RecoveryStep |-> 50])],
      [PolicyType |-> PolicyTypeCircuitBreak, Severity |-> 79,
       CircuitBreak |-> Ptr([BreakDuration |-> 1, RecoveryStep |-> 100])],
      [PolicyType |-> PolicyTypeCircuitBreak, Severity |-> 80,
       CircuitBreak |-> Nil],
      [PolicyType |-> PolicyTypeRateLimit, Severity |-> 80,
       CircuitBreak |-> Nil] }

\* The *types.Policy arguments of UpdatePolicy, nil included.
PolicyPtrs == {Ptr(p) : p \in Policies} \cup {Nil}

-----------------------------------------------------------------------------
(* package breaker *)

\* int64(float64(FailureThreshold) * RecoveryIncrement): conversion truncates.
recoveryThreshold(cfg) == (cfg.FailureThreshold * cfg.RecoveryIncrement) \div 100

\* clusterBreaker.setState (the statistics it stamps are not modelled).
setState(b, state) == [b EXCEPT !.State = state]

\* clusterBreaker.reset
reset(b) == [b EXCEPT !.FailureCount = 0, !.SuccessCount = 0]

\* The entry UpdatePolicy creates for an unknown cluster.
newBreaker ==
    [State |-> BreakerStateClosed, Policy |-> Nil,
     FailureCount |-> 0, SuccessCount |-> 0,
     LastFailTime |-> ZeroTime, NextRetry |-> ZeroTime,
     Config |-> config]

\* Variant of bypass: the empty id is looked up like any other.
bypassUnknownOnly(id) == id \notin DOMAIN clusters

\* Variant of bypass: the empty id is let through only while its entry, if it has
\* one, is not OPEN.
bypassUnlessOpen(id) ==
    \/ id \notin DOMAIN clusters
    \/ id = "" /\ clusters[id].State # BreakerStateOpen

\* The early returns shared by Allow, RecordSuccess, RecordFailure and GetState.
bypass(id) == id = "" \/ id \notin DOMAIN clusters

\* time.Now().After(breaker.NextRetry)
retryDue(t, b) == t > b.NextRetry

\* Allow on an existing entry: the result and the entry afterwards.
allowOn(b, t) ==
    CASE b.State = BreakerStateClosed -> [ret |-> TRUE, b |-> b]
      [] b.State = BreakerStateOpen ->
            IF retryDue(t, b)
            THEN [ret |-> TRUE, b |-> setState(b, BreakerStateHalfOpen)]
            ELSE [ret |-> FALSE, b |-> b]
      [] b.State = BreakerStateHalfOpen -> [ret |-> TRUE, b |-> b]
      [] OTHER -> [ret |-> FALSE, b |-> b]

\* Variant of recordSuccessOn: a success in CLOSED clears the failure count.
recordSuccessOnForgiving(b) ==
    LET b1 == [b EXCEPT !.SuccessCount = @ + 1] IN
    CASE b1.State = BreakerStateHalfOpen ->
            IF b1.SuccessCount >= recoveryThreshold(b1.Config)
            THEN reset(setState(b1, BreakerStateClosed))
            ELSE b1
      [] b1.State = BreakerStateOpen -> [b1 EXCEPT !.SuccessCount = @ + 1]
      [] OTHER -> [b1 EXCEPT !.FailureCount = 0]

\* RecordSuccess on an existing entry.
recordSuccessOn(b) ==
    LET b1 == [b EXCEPT !.SuccessCount = @ + 1] IN
    CASE b1.State = BreakerStateHalfOpen ->
            IF b1.SuccessCount >= recoveryThreshold(b1.Config)
            THEN reset(setState(b1, BreakerStateClosed))
            ELSE b1
      [] b1.State = BreakerStateOpen -> [b1 EXCEPT !.SuccessCount = @ + 1]
      [] OTHER -> b1

\* Variant of recordFailureOn: a CLOSED breaker opens only above the threshold.
recordFailureOnAbove(b, t) ==
    LET b1 == [b EXCEPT !.FailureCount = @ + 1, !.LastFailTime = t] IN
    CASE b1.State = BreakerStateClosed ->
            IF b1.FailureCount > b1.Config.FailureThreshold
            THEN [setState(b1, BreakerStateOpen) EXCEPT
                     !.NextRetry = t + b1.Config.RecoveryTimeout]
            ELSE b1
      [] b1.State = BreakerStateHalfOpen ->
            [setState(b1, BreakerStateOpen) EXCEPT
                !.NextRetry = t + b1.Config.RecoveryTimeout]
      [] OTHER -> b1

\* Variant of recordFailureOn: a failure in OPEN pushes the retry time back.
recordFailureOnSliding(b, t) ==
    LET b1 == [b EXCEPT !.FailureCount = @ + 1, !.LastFailTime = t] IN
    CASE b1.State = BreakerStateClosed ->
            IF b1.FailureCount >= b1.Config.FailureThreshold
            THEN [setState(b1, BreakerStateOpen) EXCEPT
                     !.NextRetry = t + b1.Config.RecoveryTimeout]
            ELSE b1
      [] OTHER ->
            [setState(b1, BreakerStateOpen) EXCEPT
                !.NextRetry = t + b1.Config.RecoveryTimeout]

\* Variant of recordFailureOn: a HALF_OPEN breaker re-opens only once the
\* failure count has reached the threshold.
recordFailureOnCounted(b, t) ==
    LET b1 == [b EXCEPT !.FailureCount = @ + 1, !.LastFailTime = t] IN
    IF b1.State \in {BreakerStateClosed, BreakerStateHalfOpen}
       /\ b1.FailureCount >= b1.Config.FailureThreshold
    THEN [setState(b1, BreakerStateOpen) EXCEPT
             !.NextRetry = t + b1.Config.RecoveryTimeout]
    ELSE b1

\* RecordFailure on an existing entry.
recordFailureOn(b, t) ==
    LET b1 == [b EXCEPT !.FailureCount = @ + 1, !.LastFailTime = t] IN
    CASE b1.State = BreakerStateClosed ->
            IF b1.FailureCount >= b1.Config.FailureThreshold
            THEN [setState(b1, BreakerStateOpen) EXCEPT
                     !.NextRetry = t + b1.Config.RecoveryTimeout]
            ELSE b1
      [] b1.State = BreakerStateHalfOpen ->
            [setState(b1, BreakerStateOpen) EXCEPT
                !.NextRetry = t + b1.Config.RecoveryTimeout]
      [] OTHER -> b1

\* Variant of updatePolicyOn: only a severity above the limit opens the breaker.
updatePolicyOnAbove(b, p, t) ==
    LET b1 == [b EXCEPT !.Policy = p]
        policy == Deref(p)
    IN
    IF policy.PolicyType = PolicyTypeCircuitBreak /\ policy.CircuitBreak # Nil
    THEN LET cb == Deref(policy.CircuitBreak)
             b2 == [b1 EXCEPT !.Config =
                       [FailureThreshold |-> config.FailureThreshold,
                        RecoveryTimeout |-> cb.BreakDuration,
                        RecoveryIncrement |-> cb.RecoveryStep]]
         IN IF policy.Severity > ImmediateBreakSeverity
            THEN [setState(b2, BreakerStateOpen) EXCEPT
                     !.NextRetry = t + cb.BreakDuration]
            ELSE b2
    ELSE b1

\* Variant of updatePolicyOn: a policy of any type opens the breaker at the
\* severity limit.
updatePolicyOnAnyType(b, p, t) ==
    LET b1 == [b EXCEPT !.Policy = p]
        policy == Deref(p)
    IN
    IF policy.PolicyType = PolicyTypeCircuitBreak /\ policy.CircuitBreak # Nil
    THEN LET cb == Deref(policy.CircuitBreak)
             b2 == [b1 EXCEPT !.Config =
                       [FailureThreshold |-> config.FailureThreshold,
                        RecoveryTimeout |-> cb.BreakDuration,
                        RecoveryIncrement |-> cb.RecoveryStep]]
         IN IF policy.Severity >= ImmediateBreakSeverity
            THEN [setState(b2, BreakerStateOpen) EXCEPT
                     !.NextRetry = t + cb.BreakDuration]
            ELSE b2
    ELSE IF policy.Severity >= ImmediateBreakSeverity
         THEN [setState(b1, BreakerStateOpen) EXCEPT
                  !.NextRetry = t + b1.Config.RecoveryTimeout]
         ELSE b1

\* UpdatePolicy on the entry found or just created, for a non-nil policy.
updatePolicyOn(b, p, t) ==
    LET b1 == [b EXCEPT !.Policy = p]
        policy == Deref(p)
    IN
    IF policy.PolicyType = PolicyTypeCircuitBreak /\ policy.CircuitBreak # Nil
    THEN LET cb == Deref(policy.CircuitBreak)
             b2 == [b1 EXCEPT !.Config =
                       [FailureThreshold |-> config.FailureThreshold,
                        RecoveryTimeout |-> cb.BreakDuration,
                        RecoveryIncrement |-> cb.RecoveryStep]]
         IN IF policy.Severity >= ImmediateBreakSeverity
            THEN [setState(b2, BreakerStateOpen) EXCEPT
                     !.NextRetry = t + cb.BreakDuration]
            ELSE b2
    ELSE b1

\* What GetState answers.
getState(id) == IF bypass(id) THEN BreakerStateClosed ELSE clusters[id].State

\* The state a call finds, for the call record.
found(id) == IF id \in DOMAIN clusters THEN clusters[id].State ELSE NoBreaker

\* The clusters map with the entry of id replaced or added.
store(id, b) == [i \in DOMAIN clusters \cup {id} |-> IF i = id THEN b ELSE clusters[i]]

\* History: successes recorded in the current HALF_OPEN period of id, given the
\* state the call found and the state it left.
probesAfter(id, from, to, success) ==
    IF to # BreakerStateHalfOpen THEN 0
    ELSE IF from # BreakerStateHalfOpen THEN 0
    ELSE IF success THEN probes[id] + 1
    ELSE probes[id]

\* The record of a call: n counts the successes of the HALF_OPEN period a
\* RecordSuccess belongs to, itself included.
Call(op, id, arg, ret) ==
    [op |-> op, id |-> id, arg |-> arg, ret |-> ret, from |-> found(id),
     n |-> IF op = "RecordSuccess" /\ found(id) = BreakerStateHalfOpen
           THEN probes[id] + 1 ELSE 0]

\* No call.
NoCall == [op |-> "none", id |-> "", arg |-> Nil, ret |-> Ok, from |-> NoBreaker, n |-> 0]

\* Allow, RecordSuccess and RecordFailure as calls: the result with the map and
\* the history they leave.
allowCall(id) ==
    IF bypass(id)
    THEN [ret |-> TRUE, clusters |-> clusters, probes |-> probes]
    ELSE LET r == allowOn(clusters[id], now) IN
         [ret |-> r.ret, clusters |-> store(id, r.b),
          probes |-> [probes EXCEPT ![id] =
                         probesAfter(id, found(id), r.b.State, FALSE)]]

recordSuccessCall(id) ==
    IF bypass(id)
    THEN [clusters |-> clusters, probes |-> probes]
    ELSE LET b == recordSuccessOn(clusters[id]) IN
         [clusters |-> store(id, b),
          probes |-> [probes EXCEPT ![id] =
                         probesAfter(id, found(id), b.State, TRUE)]]

recordFailureCall(id) ==
    IF bypass(id)
    THEN [clusters |-> clusters, probes |-> probes]
    ELSE LET b == recordFailureOn(clusters[id], now) IN
         [clusters |-> store(id, b),
          probes |-> [probes EXCEPT ![id] =
                         probesAfter(id, found(id), b.State, FALSE)]]

Allow(id) ==
    /\ clusters' = allowCall(id).clusters
    /\ probes' = allowCall(id).probes
    /\ last' = Call("Allow", id, Nil, allowCall(id).ret)
    /\ UNCHANGED <<now, config, published, bucketVars, pipelineVars>>

RecordSuccess(id) ==
    /\ ~bypass(id) => clusters[id].SuccessCount + 2 <= MaxCount
    /\ clusters' = recordSuccessCall(id).clusters
    /\ probes' = recordSuccessCall(id).probes
    /\ last' = Call("RecordSuccess", id, Nil, Ok)
    /\ UNCHANGED <<now, config, published, bucketVars, pipelineVars>>

RecordFailure(id) ==
    /\ ~bypass(id) => clusters[id].FailureCount < MaxCount
    /\ clusters' = recordFailureCall(id).clusters
    /\ probes' = recordFailureCall(id).probes
    /\ last' = Call("RecordFailure", id, Nil, Ok)
    /\ UNCHANGED <<now, config, published, bucketVars, pipelineVars>>

GetState(id) ==
    /\ last' = Call("GetState", id, Nil, getState(id))
    /\ UNCHANGED <<now, breakerVars, bucketVars, pipelineVars>>

UpdatePolicy(id, p) ==
    /\ id = published
    /\ IF p = Nil
       THEN /\ clusters' = clusters
            /\ probes' = probes
            /\ last' = Call("UpdatePolicy", id, p, "error")
       ELSE LET b == IF id \in DOMAIN clusters THEN clusters[id] ELSE newBreaker IN
            /\ clusters' = store(id, updatePolicyOn(b, p, now))
            /\ probes' = [probes EXCEPT ![id] =
                             probesAfter(id, found(id), clusters'[id].State, FALSE)]
            /\ last' = Call("UpdatePolicy", id, p, Ok)
    /\ UNCHANGED <<now, config, published, bucketVars, pipelineVars>>

\* The clock and the watcher act between the calls that read what they change:
\* in the chain, between requests and ahead of either part of CircuitBreaker
\* (the other stages touch neither the clock nor the breaker).
Yielding == req.pc \in {"idle", "CircuitBreaker", "CircuitBreakerRecord"}

\* The clock advances between calls.
Tick ==
    /\ Yielding
    /\ now < MaxTime
    /\ now' = now + 1
    /\ last' = NoCall
    /\ UNCHANGED <<breakerVars, bucketVars, pipelineVars>>

-----------------------------------------------------------------------------
(* package limiter: TokenBucket *)

\* refillRate is a number of tokens per RateScale ticks, so that rates below
\* one token per tick exist.
RateScale == 2

\* NewTokenBucket at clock reading t: the bucket starts full.
NewTokenBucket(capacity, refillRate, t) ==
    [capacity |-> capacity, tokens |-> capacity,
     refillRate |-> refillRate, lastRefill |-> t]

\* Variant of refill: lastRefill is not advanced.
refillStale(b, t) ==
    LET elapsed == t - b.lastRefill IN
    IF elapsed > 0
    THEN LET tokensToAdd == (elapsed * b.refillRate) \div RateScale
             tokens == b.tokens + tokensToAdd
         IN [b EXCEPT !.tokens = IF tokens > b.capacity THEN b.capacity ELSE tokens]
    ELSE b

\* TokenBucket.refill at clock reading t: int64(elapsed * refillRate) truncates,
\* and lastRefill advances whenever time has passed.
refill(b, t) ==
    LET elapsed == t - b.lastRefill IN
    IF elapsed > 0
    THEN LET tokensToAdd == (elapsed * b.refillRate) \div RateScale
             tokens == b.tokens + tokensToAdd
         IN [b EXCEPT !.tokens = IF tokens > b.capacity THEN b.capacity ELSE tokens,
                      !.lastRefill = t]
    ELSE b

\* The record of a call on the bucket.
BucketCall(op, arg, ret) ==
    [op |-> op, id |-> "", arg |-> arg, ret |-> ret, from |-> NoBreaker, n |-> 0]

\* History: an interval of observation starting at clock reading t.
Window(t) == [since |-> t, granted |-> 0, calls |-> 0, steady |-> TRUE]

TokenBucketAllow ==
    LET b == refill(tb, now)
        ok == b.tokens > 0
    IN
    /\ win.calls < MaxCalls
    /\ tb' = IF ok THEN [b EXCEPT !.tokens = @ - 1] ELSE b
    /\ win' = [win EXCEPT !.calls = @ + 1,
                          !.granted = IF ok THEN @ + 1 ELSE @]
    /\ last' = BucketCall("TokenBucket.Allow", Nil, ok)
    /\ UNCHANGED <<now, breakerVars, pipelineVars>>

TokenBucketAllowN(n) ==
    LET b == refill(tb, now)
        ok == b.tokens >= n
    IN
    /\ tb' = IF ok THEN [b EXCEPT !.tokens = @ - n] ELSE b
    /\ last' = BucketCall("TokenBucket.AllowN", Ptr(n), ok)
    /\ UNCHANGED <<now, win, breakerVars, pipelineVars>>

TokenBucketSetRate(rate) ==
    /\ tb' = [tb EXCEPT !.refillRate = rate]
    /\ win' = [win EXCEPT !.steady = @ /\ rate = tb.refillRate]
    /\ last' = BucketCall("TokenBucket.SetRate", Ptr(rate), Ok)
    /\ UNCHANGED <<now, breakerVars, pipelineVars>>

TokenBucketGetTokens ==
    /\ tb' = refill(tb, now)
    /\ last' = BucketCall("TokenBucket.GetTokens", Nil, tb'.tokens)
    /\ UNCHANGED <<now, win, breakerVars, pipelineVars>>

TokenBucketGetRate ==
    /\ last' = BucketCall("TokenBucket.GetRate", Nil, tb.refillRate)
    /\ UNCHANGED <<now, tb, win, breakerVars, pipelineVars>>

TokenBucketReset ==
    /\ tb' = [tb EXCEPT !.tokens = tb.capacity, !.lastRefill = now]
    /\ win' = [win EXCEPT !.steady = FALSE]
    /\ last' = BucketCall("TokenBucket.Reset", Nil, Ok)
    /\ UNCHANGED <<now, breakerVars, pipelineVars>>

TokenBucketIsEmpty ==
    /\ tb' = refill(tb, now)
    /\ last' = BucketCall("TokenBucket.IsEmpty", Nil, tb'.tokens = 0)
    /\ UNCHANGED <<now, win, breakerVars, pipelineVars>>

TokenBucketIsFull ==
    /\ tb' = refill(tb, now)
    /\ last' = BucketCall("TokenBucket.IsFull", Nil, tb'.tokens = tb'.capacity)
    /\ UNCHANGED <<now, win, breakerVars, pipelineVars>>

TokenBucketGetCapacity ==
    /\ last' = BucketCall("TokenBucket.GetCapacity", Nil, tb.capacity)
    /\ UNCHANGED <<now, tb, win, breakerVars, pipelineVars>>

\* Variant of SetCapacity: the tokens are not clamped to the new capacity.
TokenBucketSetCapacityUnclamped(capacity) ==
    /\ tb' = [tb EXCEPT !.capacity = capacity]
    /\ win' = [win EXCEPT !.steady = @ /\ capacity = tb.capacity]
    /\ last' = BucketCall("TokenBucket.SetCapacity", Ptr(capacity), Ok)
    /\ UNCHANGED <<now, breakerVars, pipelineVars>>

TokenBucketSetCapacity(capacity) ==
    /\ tb' = [tb EXCEPT !.capacity = capacity,
                        !.tokens = IF @ > capacity THEN capacity ELSE @]
    /\ win' = [win EXCEPT !.steady = @ /\ capacity = tb.capacity]
    /\ last' = BucketCall("TokenBucket.SetCapacity", Ptr(capacity), Ok)
    /\ UNCHANGED <<now, breakerVars, pipelineVars>>

\* History only: a new interval of observation starts now.
Observe ==
    /\ win # Window(now)
    /\ win' = Window(now)
    /\ last' = NoCall
    /\ UNCHANGED <<now, tb, breakerVars, pipelineVars>>

-----------------------------------------------------------------------------
(* package vector: vectorAgent, with the cache and the embedding service *)

\* The default similarity threshold 0.82, in hundredths.
similarityThreshold == 82

\* Error strings a signature may be: two messages, and one of white space only.
Signatures == {"timeout", "refused", " "}

\* Cluster snapshots an agent may hold (centroids have non-negative
\* components): none; one cluster, near one message or near the others; two
\* clusters with the same centroid.
Snapshots ==
    { [id \in {} |-> <<>>],
      [id \in {"K1"} |-> <<1, 0>>],
      [id \in {"K1"} |-> <<4, 3>>],
      [id \in {"K1", "K2"} |-> <<1, 0>>] }

\* embeddingService.PreprocessText: white space is collapsed and trimmed (the
\* two messages hold nothing the templates replace).
PreprocessText(text) == IF text = " " THEN "" ELSE text

\* MockBGEModel.Encode: a fixed vector for each text.
Encode(text) == IF text = "timeout" THEN <<1, 0>> ELSE <<4, 3>>

\* embeddingService.EmbedText: the empty text is an error.
EmbedText(text) ==
    IF text = ""
    THEN [vector |-> <<>>, err |-> "empty text"]
    ELSE [vector |-> Encode(PreprocessText(text)), err |-> Ok]

\* vectorAgent.GenerateVector: without an embedding service it fails.
GenerateVector(text) ==
    IF agent.embeddingService = Nil
    THEN [vector |-> <<>>, err |-> "embedding service not available"]
    ELSE EmbedText(PreprocessText(text))

RECURSIVE SumProducts(_, _, _)
SumProducts(a, b, i) ==
    IF i > Len(a) THEN 0 ELSE a[i] * b[i] + SumProducts(a, b, i + 1)

\* utils.CosineSimilarity, kept exact: the similarity is dot / sqrt(norms), and
\* 0 for vectors of different lengths or of norm 0.
CosineSimilarity(a, b) ==
    IF Len(a) # Len(b) \/ SumProducts(a, a, 1) = 0 \/ SumProducts(b, b, 1) = 0
    THEN [dot |-> 0, norms |-> 1]
    ELSE [dot |-> SumProducts(a, b, 1),
          norms |-> SumProducts(a, a, 1) * SumProducts(b, b, 1)]

\* x > y and x >= threshold for similarities that are not negative.
Greater(x, y) == x.dot * x.dot * y.norms > y.dot * y.dot * x.norms
AtLeast(x, hundredths) == x.dot * x.dot * 10000 >= hundredths * hundredths * x.norms

\* findMostSimilarCluster if the loop kept the first cluster at or above the
\* threshold instead of the best one.
findFirstSimilarCluster(vector) ==
    LET sim(c) == CosineSimilarity(vector, agent.clusters[c])
        eligible == {c \in DOMAIN agent.clusters :
                        /\ Len(agent.clusters[c]) # 0
                        /\ sim(c).dot > 0
                        /\ AtLeast(sim(c), similarityThreshold)}
    IN IF eligible = {} THEN {""} ELSE eligible

\* vectorAgent.findMostSimilarCluster: the ids the loop over the map may end
\* with.  The map is walked in any order, and only a strictly greater
\* similarity replaces the best so far, so any cluster of greatest similarity
\* can win, provided it is above 0 and at least the threshold.
findMostSimilarCluster(vector) ==
    LET sim(c) == CosineSimilarity(vector, agent.clusters[c])
        eligible == {c \in DOMAIN agent.clusters :
                        /\ Len(agent.clusters[c]) # 0
                        /\ sim(c).dot > 0
                        /\ AtLeast(sim(c), similarityThreshold)}
    IN IF eligible = {} THEN {""}
       ELSE {c \in eligible : \A d \in eligible : ~Greater(sim(d), sim(c))}

\* cache.Get at clock reading t: found unless absent or expired.
cacheFound(cache, key, t) == key \in DOMAIN cache /\ ~(t > cache[key].expiredAt)

\* The cache after Get: an expired item is removed.
cacheAfterGet(cache, key, t) ==
    IF key \in DOMAIN cache /\ t > cache[key].expiredAt
    THEN [k \in DOMAIN cache \ {key} |-> cache[k]]
    ELSE cache

\* cache.Set with a positive ttl.
cacheSet(cache, key, value, ttl, t) ==
    [k \in DOMAIN cache \cup {key} |->
        IF k = key THEN [value |-> value, expiredAt |-> t + ttl] ELSE cache[k]]

\* vectorAgent.IdentifyCluster: the outcomes it may have, each with the cache
\* it leaves.
IdentifyCluster(errorSignature) ==
    IF errorSignature = ""
    THEN {[id |-> "", err |-> Ok, cache |-> agent.cache]}
    ELSE IF cacheFound(agent.cache, errorSignature, now)
    THEN {[id |-> agent.cache[errorSignature].value, err |-> Ok, cache |-> agent.cache]}
    ELSE LET cache == cacheAfterGet(agent.cache, errorSignature, now)
             gen == GenerateVector(errorSignature)
         IN IF gen.err # Ok
            THEN {[id |-> "", err |-> "failed to generate vector", cache |-> cache]}
            ELSE {[id |-> c, err |-> Ok,
                   cache |-> IF c # ""
                             THEN cacheSet(cache, errorSignature, c, CacheTTL, now)
                             ELSE cache] :
                     c \in findMostSimilarCluster(gen.vector)}

\* NewVectorAgent, then the snapshot in force.
NewVectorAgent(embeddingService, snapshot) ==
    [embeddingService |-> embeddingService, clusters |-> snapshot,
     cache |-> [k \in {} |-> [value |-> "", expiredAt |-> ZeroTime]]]

\* The goroutines that may be inside the agent: two callers of IdentifyCluster
\* and one of UpdateClusters.
Callers == {"A", "B"}
Updater == "U"

\* A goroutine outside the agent; its locals are those of its last call.
Idle == [pc |-> "idle", sig |-> "", vector |-> <<>>, id |-> "", hit |-> FALSE,
         seen |-> [id \in {} |-> <<>>]]
NoThreads == [t \in Callers \cup {Updater} |-> Idle]

\* The agents a chain may be given: the gateway's, without embedding service
\* and without clusters, and agents with a service and a snapshot.
Agents ==
    {NewVectorAgent(Nil, [id \in {} |-> <<>>])}
    \cup {NewVectorAgent(Ptr("embeddingService"), s) : s \in Snapshots}

-----------------------------------------------------------------------------
(* package clustering: clusteringEngine, with the vector store *)

\* Bounds: the clusters max_clusters may allow, and the members the table may
\* hold in all.
MaxClusterLimit == 2
MaxEvents == 3
\* kMeansCluster's maxIterations.
maxIterations == 10

\* ce.config
ClusteringConfigs ==
    [SimilarityThreshold : {similarityThreshold},
     MinClusterSize : {2},
     MaxClusters : 1..MaxClusterLimit]

\* Error events: an id and the text buildErrorSignature makes of the event.
EventIDs == {"e1", "e2"}
ErrorEvents == [EventID : EventIDs, ErrorMessage : {"timeout", "refused"}]
buildErrorSignature(event) == event.ErrorMessage

\* Cluster ids are numbers (utils.GenerateClusterID yields an id not in use);
\* NoCluster is the empty id.
NoCluster == 0

\* CHOOSE r \in {F(v) : v \in {x}} : TRUE is F(x), with x evaluated once.

\* A centroid is kept exact, as num / den (\o <<>> makes a function over 1..n
\* the sequence it is).
RECURSIVE GCD(_, _)
GCD(a, b) == IF b = 0 THEN a ELSE GCD(b, a % b)
RECURSIVE GCDAll(_, _, _)
GCDAll(v, i, g) == IF i > Len(v) THEN g ELSE GCDAll(v, i + 1, GCD(v[i], g))
Centroid(num, den) ==
    LET reduced(v) ==
           LET by(g) == [num |-> [i \in 1..Len(v) |-> v[i] \div g] \o <<>>,
                         den |-> den \div g]
           IN CHOOSE r \in {by(g) : g \in {GCDAll(v, 1, den)}} : TRUE
    IN CHOOSE r \in {reduced(v) : v \in {num}} : TRUE

\* NewClusteringEngine
NewClusteringEngine(cfg) ==
    [config |-> cfg,
     clusters |-> [c \in {} |-> 0],
     memberToCluster |-> [e \in {} |-> NoCluster],
     vectors |-> [e \in {} |-> <<>>],
     stopCh |-> "open",
     reclusterTicker |-> Nil,
     goroutine |-> "none",
     mutex |-> ""]
NoEngine == NewClusteringEngine([SimilarityThreshold |-> similarityThreshold,
                                 MinClusterSize |-> 2, MaxClusters |-> 1])

\* vectorDB.AddVector: the store keeps one vector for an id.
AddVector(vectors, id, vector) ==
    [e \in DOMAIN vectors \cup {id} |-> IF e = id THEN vector ELSE vectors[e]]

\* clusteringEngine.FindMostSimilarCluster: the ids the loop over the map may
\* end with; the empty id when no centroid has a similarity above 0.
FindMostSimilarCluster(vector) ==
    LET sim(c) == CosineSimilarity(vector, ce.clusters[c].Centroid.num)
        positive == {c \in DOMAIN ce.clusters :
                        Len(ce.clusters[c].Centroid.num) # 0 /\ sim(c).dot > 0}
    IN IF positive = {} THEN {NoCluster}
       ELSE {c \in positive : \A d \in positive : ~Greater(sim(d), sim(c))}

\* clusteringEngine.CreateNewCluster: an error at max_clusters, else a cluster
\* of the one event under a new id.
CreateNewCluster(event, vector) ==
    IF Cardinality(DOMAIN ce.clusters) >= ce.config.MaxClusters
    THEN [err |-> "maximum number of clusters reached", ce |-> ce]
    ELSE LET clusterID == CHOOSE n \in 1..(Cardinality(DOMAIN ce.clusters) + 1) :
                             n \notin DOMAIN ce.clusters
             cluster == [Centroid |-> Centroid(vector, 1),
                         Members |-> <<event.EventID>>,
                         ErrorCount |-> 1,
                         CreateTime |-> now,
                         UpdateTime |-> now]
         IN [err |-> Ok,
             ce |-> [ce EXCEPT
                       !.clusters = [c \in DOMAIN @ \cup {clusterID} |->
                                        IF c = clusterID THEN cluster ELSE @[c]],
                       !.memberToCluster = [e \in DOMAIN @ \cup {event.EventID} |->
                                        IF e = event.EventID THEN clusterID ELSE @[e]],
                       !.vectors = AddVector(@, event.EventID, vector)]]

\* clusteringEngine.updateCentroid: (centroid * (n - 1) + vector) / n for the
\* n members the cluster now has.
updateCentroid(centroid, n, newVector) ==
    IF Len(centroid.num) # Len(newVector) THEN centroid
    ELSE Centroid([i \in 1..Len(newVector) |->
                      centroid.num[i] * (n - 1) + newVector[i] * centroid.den] \o <<>>,
                  centroid.den * n)

\* addEventToCluster if it appended the member without counting it.
addEventToClusterUncounted(clusterID, event, vector) ==
    IF clusterID \notin DOMAIN ce.clusters
    THEN [err |-> "cluster not found", ce |-> ce]
    ELSE LET cluster == ce.clusters[clusterID]
             Members == Append(cluster.Members, event.EventID)
         IN [err |-> Ok,
             ce |-> [ce EXCEPT
                       !.clusters[clusterID] =
                           [cluster EXCEPT
                              !.Members = Members,
                              !.UpdateTime = now,
                              !.Centroid = updateCentroid(@, Len(Members), vector)],
                       !.memberToCluster = [e \in DOMAIN @ \cup {event.EventID} |->
                                        IF e = event.EventID THEN clusterID ELSE @[e]],
                       !.vectors = AddVector(@, event.EventID, vector)]]

\* clusteringEngine.addEventToCluster
addEventToCluster(clusterID, event, vector) ==
    IF clusterID \notin DOMAIN ce.clusters
    THEN [err |-> "cluster not found", ce |-> ce]
    ELSE LET cluster == ce.clusters[clusterID]
             Members == Append(cluster.Members, event.EventID)
         IN [err |-> Ok,
             ce |-> [ce EXCEPT
                       !.clusters[clusterID] =
                           [cluster EXCEPT
                              !.Members = Members,
                              !.ErrorCount = @ + 1,
                              !.UpdateTime = now,
                              !.Centroid = updateCentroid(@, Len(Members), vector)],
                       !.memberToCluster = [e \in DOMAIN @ \cup {event.EventID} |->
                                        IF e = event.EventID THEN clusterID ELSE @[e]],
                       !.vectors = AddVector(@, event.EventID, vector)]]

\* A call of the engine: the operation, the cluster the event went to, the
\* event id and the error returned.
EngineCall(op, clusterID, eventID, err) ==
    [op |-> op, id |-> eventID, arg |-> Ptr(clusterID), ret |-> err,
     from |-> NoBreaker, n |-> 0]

\* The members the table holds in all.
RECURSIVE members(_, _)
members(table, ids) ==
    IF ids = {} THEN 0
    ELSE LET c == CHOOSE c \in ids : TRUE
         IN Len(table[c].Members) + members(table, ids \ {c})

\* clusteringEngine.ProcessErrorEvent
ProcessErrorEvent(event) ==
    /\ members(ce.clusters, DOMAIN ce.clusters) < MaxEvents
    /\ LET embedded == EmbedText(buildErrorSignature(event)) IN
       IF embedded.err # Ok
       THEN /\ ce' = ce
            /\ last' = EngineCall("ProcessErrorEvent", NoCluster, event.EventID,
                                  "failed to embed text")
       ELSE \E clusterID \in FindMostSimilarCluster(embedded.vector) :
               LET similarity == IF clusterID = NoCluster
                                 THEN [dot |-> 0, norms |-> 1]
                                 ELSE CosineSimilarity(embedded.vector,
                                         ce.clusters[clusterID].Centroid.num)
                   r == IF clusterID = NoCluster
                           \/ ~AtLeast(similarity, ce.config.SimilarityThreshold)
                        THEN CreateNewCluster(event, embedded.vector)
                        ELSE addEventToCluster(clusterID, event, embedded.vector)
               IN /\ ce' = r.ce
                  /\ last' = EngineCall("ProcessErrorEvent",
                                IF r.err = Ok THEN r.ce.memberToCluster[event.EventID]
                                ELSE NoCluster,
                                event.EventID,
                                IF r.err = Ok THEN Ok
                                ELSE IF clusterID = NoCluster
                                        \/ ~AtLeast(similarity, ce.config.SimilarityThreshold)
                                     THEN "failed to create new cluster"
                                     ELSE "failed to add event to cluster")
    /\ UNCHANGED <<now, req, agent, threads, workers, watcher, breakerVars, bucketVars, run>>

\* The goroutines that call ProcessErrorEvent (the consumer's handlers): where
\* each one is, its locals, and how many of its calls returned nil.
Workers == {"P", "Q"}
NoWorkers ==
    [w \in Workers |->
        [pc |-> "idle", event |-> Nil, vector |-> <<>>, clusterID |-> NoCluster,
         cluster |-> Nil, ClusterID |-> NoCluster, returned |-> 0]]

\* ProcessErrorEvent up to the call of FindMostSimilarCluster.
ProcessErrorEventEnter(w, event) ==
    /\ workers[w].pc = "idle"
    /\ workers["P"].returned + workers["Q"].returned
          + Cardinality({v \in Workers : workers[v].pc # "idle"}) < MaxEvents
    /\ LET embedded == EmbedText(buildErrorSignature(event)) IN
       IF embedded.err # Ok
       THEN /\ workers' = workers
            /\ last' = EngineCall("ProcessErrorEvent", NoCluster, event.EventID,
                                  "failed to embed text")
       ELSE /\ workers' = [workers EXCEPT ![w] =
                             [@ EXCEPT !.pc = "FindMostSimilarCluster",
                                       !.event = Ptr(event),
                                       !.vector = embedded.vector,
                                       !.ClusterID = NoCluster]]
            /\ last' = last
    /\ UNCHANGED <<now, req, agent, threads, ce, watcher, breakerVars, bucketVars, run>>

\* FindMostSimilarCluster, under the read lock, and the branch taken on what
\* it returned.
ProcessErrorEventFind(w) ==
    /\ workers[w].pc = "FindMostSimilarCluster"
    /\ \E clusterID \in FindMostSimilarCluster(workers[w].vector) :
          LET similarity == IF clusterID = NoCluster
                            THEN [dot |-> 0, norms |-> 1]
                            ELSE CosineSimilarity(workers[w].vector,
                                    ce.clusters[clusterID].Centroid.num)
          IN workers' = [workers EXCEPT ![w] =
                [@ EXCEPT !.clusterID = clusterID,
                          !.pc = IF clusterID = NoCluster
                                    \/ ~AtLeast(similarity, ce.config.SimilarityThreshold)
                                 THEN "CreateNewCluster"
                                 ELSE "addEventToCluster"]]
    /\ UNCHANGED <<now, last, req, agent, threads, ce, watcher, breakerVars, bucketVars, run>>

\* CreateNewCluster, under the write lock, and the return of ProcessErrorEvent.
ProcessErrorEventCreate(w) ==
    /\ workers[w].pc = "CreateNewCluster"
    /\ LET event == Deref(workers[w].event)
           r == CreateNewCluster(event, workers[w].vector)
           newClusterID == IF r.err = Ok THEN r.ce.memberToCluster[event.EventID]
                           ELSE NoCluster
       IN /\ ce' = r.ce
          /\ workers' = [workers EXCEPT ![w] =
                [@ EXCEPT !.pc = "idle",
                          !.ClusterID = newClusterID,
                          !.returned = IF r.err = Ok THEN @ + 1 ELSE @]]
          /\ last' = EngineCall("ProcessErrorEvent", newClusterID, event.EventID,
                                IF r.err = Ok THEN Ok
                                ELSE "failed to create new cluster")
    /\ UNCHANGED <<now, req, agent, threads, watcher, breakerVars, bucketVars, run>>

\* addEventToCluster holds no lock. Its first half: the lookup of the cluster
\* and the reads of the fields that the append, the increment and the centroid
\* update start from.
addEventToClusterLoad(w) ==
    /\ workers[w].pc = "addEventToCluster"
    /\ IF workers[w].clusterID \notin DOMAIN ce.clusters
       THEN /\ workers' = [workers EXCEPT ![w] = [@ EXCEPT !.pc = "idle"]]
            /\ last' = EngineCall("ProcessErrorEvent", NoCluster,
                                  Deref(workers[w].event).EventID,
                                  "failed to add event to cluster")
       ELSE /\ workers' = [workers EXCEPT ![w] =
                             [@ EXCEPT !.pc = "cluster.Members",
                                       !.cluster = Ptr(ce.clusters[workers[w].clusterID])]]
            /\ last' = last
    /\ UNCHANGED <<now, req, agent, threads, ce, watcher, breakerVars, bucketVars, run>>

\* Its second half: the writes of the fields, of the reverse index and of the
\* vector store, and the return of ProcessErrorEvent.
addEventToClusterStore(w) ==
    /\ workers[w].pc = "cluster.Members"
    /\ LET event == Deref(workers[w].event)
           clusterID == workers[w].clusterID
           cluster == Deref(workers[w].cluster)
           Members == Append(cluster.Members, event.EventID)
       IN /\ ce' = [ce EXCEPT
                      !.clusters[clusterID] =
                          [cluster EXCEPT
                             !.Members = Members,
                             !.ErrorCount = @ + 1,
                             !.UpdateTime = now,
                             !.Centroid = updateCentroid(@, Len(Members),
                                                         workers[w].vector)],
                      !.memberToCluster = [e \in DOMAIN @ \cup {event.EventID} |->
                                       IF e = event.EventID THEN clusterID ELSE @[e]],
                      !.vectors = AddVector(@, event.EventID, workers[w].vector)]
          /\ workers' = [workers EXCEPT ![w] =
                [@ EXCEPT !.pc = "idle", !.cluster = Nil,
                          !.ClusterID = clusterID, !.returned = @ + 1]]
          /\ last' = EngineCall("ProcessErrorEvent", clusterID, event.EventID, Ok)
    /\ UNCHANGED <<now, req, agent, threads, watcher, breakerVars, bucketVars, run>>

\* CreateNewCluster statement by statement. First ce.mutex.Lock() (mutex
\* names the goroutine that holds the write lock), the test of max_clusters
\* and the writes of the table and of the reverse index; on the error the
\* deferred Unlock runs and ProcessErrorEvent returns.
CreateNewClusterLock(w) ==
    /\ workers[w].pc = "CreateNewCluster"
    /\ ce.mutex = ""
    /\ LET event == Deref(workers[w].event)
           r == CreateNewCluster(event, workers[w].vector)
       IN IF r.err # Ok
          THEN /\ ce' = ce
               /\ workers' = [workers EXCEPT ![w] = [@ EXCEPT !.pc = "idle"]]
               /\ last' = EngineCall("ProcessErrorEvent", NoCluster, event.EventID,
                                     "failed to create new cluster")
          ELSE /\ ce' = [r.ce EXCEPT !.vectors = ce.vectors, !.mutex = w]
               /\ workers' = [workers EXCEPT ![w] =
                     [@ EXCEPT !.pc = "vectorDB.AddVector",
                               !.clusterID = r.ce.memberToCluster[event.EventID]]]
               /\ last' = last
    /\ UNCHANGED <<now, req, agent, threads, watcher, breakerVars, bucketVars, run>>

\* Then the call of vectorDB.AddVector, which the goroutine is in while at
\* "vectorDB.AddVector"; when it returns, the deferred Unlock runs and
\* ProcessErrorEvent returns nil.
CreateNewClusterAddVector(w) ==
    /\ workers[w].pc = "vectorDB.AddVector"
    /\ LET event == Deref(workers[w].event) IN
       /\ ce' = [ce EXCEPT !.vectors = AddVector(@, event.EventID, workers[w].vector),
                           !.mutex = ""]
       /\ workers' = [workers EXCEPT ![w] =
             [@ EXCEPT !.pc = "idle", !.ClusterID = workers[w].clusterID,
                       !.returned = @ + 1]]
       /\ last' = EngineCall("ProcessErrorEvent", workers[w].clusterID,
                             event.EventID, Ok)
    /\ UNCHANGED <<now, req, agent, threads, watcher, breakerVars, bucketVars, run>>

\* utils.EuclideanDistance, by its square: x is the square of the distance
\* from a vector to centroid a times a.den squared, y the same for centroid b,
\* and Nearer says that the first distance is the smaller.
square(v, c, i) == (v[i] * c.den - c.num[i]) * (v[i] * c.den - c.num[i])
RECURSIVE squares(_, _, _)
squares(v, c, i) == IF i > Len(v) THEN 0 ELSE square(v, c, i) + squares(v, c, i + 1)
Nearer(x, a, y, b) == x * b.den * b.den < y * a.den * a.den

\* kMeansCluster's inner loop: the first centroid of least distance.
bestCluster(vector, centroids) ==
    LET first(d) ==
           CHOOSE j \in 1..Len(centroids) :
              /\ \A l \in 1..Len(centroids) :
                    ~Nearer(d[l], centroids[l], d[j], centroids[j])
              /\ \A l \in 1..(j - 1) :
                    Nearer(d[j], centroids[j], d[l], centroids[l])
    IN CHOOSE r \in {first(d) :
           d \in {[l \in 1..Len(centroids) |->
                     squares(vector, centroids[l], 1)] \o <<>>}} : TRUE

\* The sum of the d-th components of the vectors at the places in I.
RECURSIVE component(_, _, _, _)
component(vectors, I, d, i) ==
    IF i > Len(vectors) THEN 0
    ELSE (IF i \in I THEN vectors[i][d] ELSE 0) + component(vectors, I, d, i + 1)

\* One iteration of kMeansCluster: assign, then replace each centroid that has
\* points by their mean.
iterate(centroids, vectors) ==
    LET assignments == [i \in 1..Len(vectors) |-> bestCluster(vectors[i], centroids)] \o <<>>
        update(a) ==
           [j \in 1..Len(centroids) |->
               LET mean(assigned) ==
                      IF assigned = {} THEN centroids[j]
                      ELSE Centroid([d \in 1..Len(vectors[1]) |->
                                        component(vectors, assigned, d, 1)] \o <<>>,
                                    Cardinality(assigned))
               IN CHOOSE r \in {mean(assigned) :
                                assigned \in {{i \in 1..Len(vectors) : a[i] = j}}} : TRUE
           ] \o <<>>
    IN CHOOSE r \in {update(a) : a \in {assignments}} : TRUE

\* The loop of kMeansCluster, n iterations from centroids (once an iteration
\* leaves the centroids as they were, so do all that follow).
RECURSIVE iterations(_, _, _)
iterations(centroids, vectors, n) ==
    IF n = 0 THEN centroids
    ELSE LET rest(c) ==
                LET after(next) == IF next = c THEN c
                                   ELSE iterations(next, vectors, n - 1)
                IN CHOOSE r \in {after(next) : next \in {iterate(c, vectors)}} : TRUE
         IN CHOOSE r \in {rest(c) : c \in {centroids}} : TRUE

\* The subsequence of eventIDs at the places in I, in order.
RECURSIVE pick(_, _, _)
pick(eventIDs, I, i) ==
    IF i > Len(eventIDs) THEN <<>>
    ELSE (IF i \in I THEN <<eventIDs[i]>> ELSE <<>>) \o pick(eventIDs, I, i + 1)

\* clusteringEngine.kMeansCluster: the new table; the i-th cluster has id i,
\* and a cluster without members is left out.
kMeansCluster(vectors, eventIDs, k) ==
    IF k <= 0 \/ Len(vectors) = 0 THEN [c \in {} |-> 0]
    ELSE LET start == [i \in 1..k |->
                          Centroid(vectors[((i - 1) % Len(vectors)) + 1], 1)] \o <<>>
             build(centroids) ==
                 LET table(a) ==
                        [i \in {a[j] : j \in 1..Len(vectors)} |->
                            [Centroid |-> centroids[i],
                             Members |-> pick(eventIDs, {j \in 1..Len(vectors) : a[j] = i}, 1),
                             ErrorCount |-> Cardinality({j \in 1..Len(vectors) : a[j] = i}),
                             CreateTime |-> now,
                             UpdateTime |-> now]]
                 IN CHOOSE r \in {table(a) :
                        a \in {[j \in 1..Len(vectors) |->
                                  bestCluster(vectors[j], centroids)] \o <<>>}} : TRUE
         IN CHOOSE r \in {build(centroids) :
                          centroids \in {iterations(start, vectors, maxIterations)}} : TRUE

\* The orders in which a range over the cluster map may visit the clusters.
Orders(ids) ==
    {o \in [1..Cardinality(ids) -> ids] : \A i, j \in DOMAIN o : o[i] = o[j] => i = j}

\* The collection if it stopped after the first cluster visited.
collectFirst(table, order, i) ==
    IF Len(order) = 0 THEN <<>> ELSE table[order[1]].Members

\* The members of the clusters, in the order visited.
RECURSIVE collect(_, _, _)
collect(table, order, i) ==
    IF i > Len(order) THEN <<>>
    ELSE table[order[i]].Members \o collect(table, order, i + 1)

\* clusteringEngine.ReCluster: the engine after the pass, for one order of
\* the range over the cluster map.
reClustered(order) ==
    LET eventIDs == collect(ce.clusters, order, 1)
        \* vectorDB.GetVector finds every member: AddVector stored it
        vectors == [i \in 1..Len(eventIDs) |-> ce.vectors[eventIDs[i]]] \o <<>>
        rebuilt(newClusters) ==
           [ce EXCEPT
              !.clusters = newClusters,
              !.memberToCluster =
                 [e \in {eventIDs[i] : i \in 1..Len(eventIDs)} |->
                    CHOOSE c \in DOMAIN newClusters :
                       \E i \in 1..Len(newClusters[c].Members) :
                          newClusters[c].Members[i] = e]]
    IN IF Len(vectors) < ce.config.MinClusterSize
       THEN ce
       ELSE CHOOSE r \in {rebuilt(newClusters) :
               newClusters \in {kMeansCluster(vectors, eventIDs,
                                               Cardinality(DOMAIN ce.clusters))}} : TRUE

\* clusteringEngine.ReCluster
ReCluster ==
    /\ \E order \in Orders(DOMAIN ce.clusters) : ce' = reClustered(order)
    /\ last' = EngineCall("ReCluster", NoCluster, "", Ok)
    /\ UNCHANGED <<now, req, agent, threads, workers, watcher, breakerVars, bucketVars, run>>

\* ReCluster while goroutines are inside ProcessErrorEvent: it waits for the
\* write lock, and a pass that rebuilds the table gives every cluster a new
\* id (utils.GenerateClusterID), so that an id a goroutine took from the old
\* table, here turned into its negative, names no cluster of the new one.
ReClusterConcurrent ==
    /\ ce.mutex = ""
    /\ \E order \in Orders(DOMAIN ce.clusters) : ce' = reClustered(order)
    /\ workers' =
          IF members(ce.clusters, DOMAIN ce.clusters) < ce.config.MinClusterSize
          THEN workers
          ELSE [w \in Workers |->
                  IF workers[w].pc \in {"addEventToCluster", "cluster.Members"}
                     /\ workers[w].clusterID > 0
                  THEN [workers[w] EXCEPT !.clusterID = 0 - @]
                  ELSE workers[w]]
    /\ last' = EngineCall("ReCluster", NoCluster, "", Ok)
    /\ UNCHANGED <<now, req, agent, threads, watcher, breakerVars, bucketVars, run>>

\* clusteringEngine.Start: the ticker (C is the tick its channel holds) and the
\* goroutine.
clusteringEngineStart ==
    /\ ce.goroutine = "none"
    /\ ce.stopCh = "open"
    /\ ce' = [ce EXCEPT !.reclusterTicker = Ptr([C |-> 0, stopped |-> FALSE]),
                        !.goroutine = "select"]
    /\ last' = EngineCall("Start", NoCluster, "", Ok)
    /\ UNCHANGED <<now, req, agent, threads, workers, watcher, breakerVars, bucketVars, run>>

\* The interval has passed: the ticker puts a tick into its channel.
reclusterTickerFire ==
    /\ ce.reclusterTicker # Nil
    /\ ~Deref(ce.reclusterTicker).stopped
    /\ Deref(ce.reclusterTicker).C = 0
    /\ ce' = [ce EXCEPT !.reclusterTicker[1].C = 1]
    /\ last' = EngineCall("reclusterTicker.C", NoCluster, "", Ok)
    /\ UNCHANGED <<now, req, agent, threads, workers, watcher, breakerVars, bucketVars, run>>

\* The goroutine of Start at its select: with a tick in the channel it may
\* take the tick and run ReCluster, with stopCh closed it may return, and
\* with both it may do either.
reclusterLoop ==
    /\ ce.goroutine = "select"
    /\ \/ /\ Deref(ce.reclusterTicker).C = 1
          /\ \E order \in Orders(DOMAIN ce.clusters) :
                ce' = [reClustered(order) EXCEPT !.reclusterTicker[1].C = 0]
          /\ last' = EngineCall("ReCluster", NoCluster, "", Ok)
       \/ /\ ce.stopCh = "closed"
          /\ ce' = [ce EXCEPT !.goroutine = "returned"]
          /\ last' = EngineCall("return", NoCluster, "", Ok)
    /\ UNCHANGED <<now, req, agent, threads, workers, watcher, breakerVars, bucketVars, run>>

\* clusteringEngine.Stop: close(ce.stopCh), and then reclusterTicker.Stop(),
\* after which the ticker sends no more; a tick already in the channel stays
\* there or is discarded, depending on the runtime.
clusteringEngineStop ==
    /\ ce.goroutine # "none"
    /\ \/ /\ ce.stopCh = "open"
          /\ ce' = [ce EXCEPT !.stopCh = "closed"]
          /\ last' = EngineCall("close(stopCh)", NoCluster, "", Ok)
       \/ /\ ce.stopCh = "closed"
          /\ ~Deref(ce.reclusterTicker).stopped
          /\ \E C \in {0, Deref(ce.reclusterTicker).C} :
                ce' = [ce EXCEPT !.reclusterTicker[1] = [C |-> C, stopped |-> TRUE]]
          /\ last' = EngineCall("Stop", NoCluster, "", Ok)
    /\ UNCHANGED <<now, req, agent, threads, workers, watcher, breakerVars, bucketVars, run>>

-----------------------------------------------------------------------------
(* package config: configWatcher, with the KV store it reads *)

\* Bound: the events the store commits.
MaxRevisions == 2

\* The values written under /policies/ (JSON text that is a policy record
\* with an expire_time, or is not one), and the events of the store.
PolicyValues ==
    [json : {"object"}, expire_time : {StartTime - 1, MaxTime}]
       \cup {[json |-> "garbage", expire_time |-> 0]}
PolicyEvents ==
    [Type : {"PUT"}, Key : PolicyKeys, Value : PolicyValues]
       \cup [Type : {"DELETE"}, Key : PolicyKeys, Value : {[json |-> "", expire_time |-> 0]}]

\* json.Unmarshal into a types.Policy
Unmarshal(value) ==
    IF value.json = "object"
    THEN [err |-> Ok, policy |-> [ExpireTime |-> value.expire_time]]
    ELSE [err |-> "invalid character", policy |-> [ExpireTime |-> 0]]

\* NewConfigWatcher, with the store's content under /policies/ and the events
\* the store has committed. watchChan is the position in the events that the
\* open stream delivers next, goroutines the callbacks started and not yet
\* run, delivered the calls of the gateway's OnPolicyUpdate so far, and
\* applied the policy the limiter and the breaker hold for each cluster after
\* these calls.
NewConfigWatcher(kv) ==
    [kv |-> kv,
     events |-> <<>>,
     policies |-> [k \in {} |-> [ExpireTime |-> 0]],
     callbacks |-> {},
     watchChan |-> Nil,
     pc |-> "configWatcher.Start",
     goroutines |-> {},
     delivered |-> {},
     applied |-> [k \in {} |-> [ExpireTime |-> 0]]]
NoWatcher == NewConfigWatcher([k \in {} |-> [json |-> "", expire_time |-> 0]])

\* The control plane writes or deletes a key, and the store commits the event.
Commit(event) ==
    /\ Len(watcher.events) < MaxRevisions
    /\ event.Type = "DELETE" => event.Key \in DOMAIN watcher.kv
    /\ watcher' = [watcher EXCEPT
          !.kv = IF event.Type = "PUT"
                 THEN [k \in DOMAIN @ \cup {event.Key} |->
                         IF k = event.Key THEN event.Value ELSE @[k]]
                 ELSE [k \in DOMAIN @ \ {event.Key} |-> @[k]],
          !.events = Append(@, event)]
    /\ UNCHANGED <<now, last, req, agent, threads, ce, workers, breakerVars, bucketVars, run>>

\* configWatcher.notifyPolicyUpdate: one goroutine for each callback that is
\* registered at the time of the call.
notifyPolicyUpdate(goroutines, callbacks, clusterID, policy) ==
    goroutines \cup {[cb |-> cb, clusterID |-> clusterID, policy |-> policy, at |-> now] :
                        cb \in callbacks}

\* configWatcher.loadExistingPolicies, first in WatchPolicyUpdates: the Get of
\* the prefix and the loop over its records (order does not matter: the keys
\* are distinct).
loadExistingPolicies ==
    /\ watcher.pc = "configWatcher.Start"
    /\ LET valid == {k \in DOMAIN watcher.kv : Unmarshal(watcher.kv[k]).err = Ok} IN
       watcher' = [watcher EXCEPT
          !.policies = [k \in DOMAIN @ \cup valid |->
                          IF k \in valid THEN Unmarshal(watcher.kv[k]).policy ELSE @[k]],
          !.goroutines = @ \cup UNION {notifyPolicyUpdate({}, watcher.callbacks, k,
                                           Unmarshal(watcher.kv[k]).policy) : k \in valid},
          !.pc = "etcdClient.Watch"]
    /\ last' = [NoCall EXCEPT !.op = "loadExistingPolicies"]
    /\ UNCHANGED <<now, req, agent, threads, ce, workers, breakerVars, bucketVars, run>>

\* The rest of WatchPolicyUpdates: etcdClient.Watch on the prefix, without a
\* revision, so that the stream starts after the last event committed when it
\* is opened; then the goroutine starts, and Start returns.
WatchPolicyUpdates ==
    /\ watcher.pc = "etcdClient.Watch"
    /\ watcher' = [watcher EXCEPT
          !.watchChan = Ptr(Len(watcher.events) + 1),
          !.pc = "RegisterCallback"]
    /\ last' = [NoCall EXCEPT !.op = "WatchPolicyUpdates"]
    /\ UNCHANGED <<now, req, agent, threads, ce, workers, breakerVars, bucketVars, run>>

\* Gateway.Start, after configWatcher.Start has returned:
\* configWatcher.RegisterCallback(g).
RegisterCallback ==
    /\ watcher.pc = "RegisterCallback"
    /\ watcher' = [watcher EXCEPT !.callbacks = @ \cup {"gateway"}, !.pc = "started"]
    /\ last' = [NoCall EXCEPT !.op = "RegisterCallback"]
    /\ UNCHANGED <<now, req, agent, threads, ce, workers, breakerVars, bucketVars, run>>

\* handleConfigEvent if it stored what Unmarshal left in the policy whatever
\* the error.
handleConfigEventUnchecked(event) ==
    LET clusterID == event.Key
        policy == Unmarshal(event.Value).policy
    IN IF event.Type = "PUT"
       THEN [err |-> Unmarshal(event.Value).err,
             policies |-> [k \in DOMAIN watcher.policies \cup {clusterID} |->
                             IF k = clusterID THEN policy ELSE watcher.policies[k]],
             goroutines |-> notifyPolicyUpdate(watcher.goroutines, watcher.callbacks,
                                               clusterID, policy)]
       ELSE [err |-> Ok,
             policies |-> [k \in DOMAIN watcher.policies \ {clusterID} |->
                             watcher.policies[k]],
             goroutines |-> watcher.goroutines]

\* configWatcher.handleConfigEvent: the map and the goroutines after it (the
\* gateway's OnPolicyDelete does nothing, so the goroutines notifyPolicyDelete
\* starts are left out).
handleConfigEvent(event) ==
    LET clusterID == event.Key
        unmarshalled == Unmarshal(event.Value)
    IN IF event.Type = "PUT"
       THEN IF unmarshalled.err # Ok
            THEN [err |-> unmarshalled.err,
                  policies |-> watcher.policies,
                  goroutines |-> watcher.goroutines]
            ELSE [err |-> Ok,
                  policies |-> [k \in DOMAIN watcher.policies \cup {clusterID} |->
                                  IF k = clusterID THEN unmarshalled.policy
                                  ELSE watcher.policies[k]],
                  goroutines |-> notifyPolicyUpdate(watcher.goroutines, watcher.callbacks,
                                                    clusterID, unmarshalled.policy)]
       ELSE [err |-> Ok,
             policies |-> [k \in DOMAIN watcher.policies \ {clusterID} |->
                             watcher.policies[k]],
             goroutines |-> watcher.goroutines]

\* The goroutine of WatchPolicyUpdates: a response taken from the stream, and
\* handleConfigEvent on its event.
watchLoop ==
    /\ watcher.watchChan # Nil
    /\ Deref(watcher.watchChan) <= Len(watcher.events)
    /\ LET event == watcher.events[Deref(watcher.watchChan)]
           r == handleConfigEvent(event)
       IN /\ watcher' = [watcher EXCEPT
                !.policies = r.policies,
                !.goroutines = r.goroutines,
                !.watchChan = Ptr(Deref(@) + 1)]
          /\ last' = [NoCall EXCEPT !.op = "handleConfigEvent", !.id = event.Key,
                                    !.ret = r.err]
    /\ UNCHANGED <<now, req, agent, threads, ce, workers, breakerVars, bucketVars, run>>

\* A goroutine of notifyPolicyUpdate runs: the gateway's OnPolicyUpdate, which
\* hands the policy to the rate limiter and to the circuit breaker.
goOnPolicyUpdate ==
    /\ \E g \in watcher.goroutines :
          /\ watcher' = [watcher EXCEPT
                !.goroutines = @ \ {g},
                !.delivered = @ \cup {g},
                !.applied = [k \in DOMAIN @ \cup {g.clusterID} |->
                               IF k = g.clusterID THEN g.policy ELSE @[k]]]
          /\ last' = [NoCall EXCEPT !.op = "OnPolicyUpdate", !.id = g.clusterID]
    /\ UNCHANGED <<now, req, agent, threads, ce, workers, breakerVars, bucketVars, run>>

\* configWatcher.GetPolicy
GetPolicy(clusterID) ==
    IF clusterID \notin DOMAIN watcher.policies THEN Nil
    ELSE IF now > watcher.policies[clusterID].ExpireTime THEN Nil
    ELSE Ptr(watcher.policies[clusterID])

-----------------------------------------------------------------------------
(* package utils: desensitizer, and embeddingService.PreprocessText *)

\* Bound: the runs on one text.
MaxRuns == 2

\* Input texts: one that no pattern matches, an IPv4 address, a token of 20
\* letters in front of an email's @, an integer, and a number of 11 digits.
Texts == {" Timeout ", "10.0.0.1", "aaaaaaaaaaaaaaaaaaaa@x.com", "42", "13800138000"}

\* The names of the patterns in d.patterns, and of those in the map literal
\* of PreprocessText, which has two more.
patterns(func) ==
    {"phone", "email", "token", "ip", "uuid", "creditcard"}
       \cup (IF func = "PreprocessText" THEN {"number", "path"} ELSE {})

\* regex.ReplaceAllString(text, replacement) for the pattern of that name, on
\* the texts above and on what the replacements make of them; a text that the
\* pattern matches nowhere is returned as it is.
ReplaceAllString(name, text) ==
    CASE name = "phone" /\ text = "13800138000" -> "[PHONE]"
      [] name = "email" /\ text = "aaaaaaaaaaaaaaaaaaaa@x.com" -> "[EMAIL]"
      [] name = "token" /\ text = "aaaaaaaaaaaaaaaaaaaa@x.com" -> "[TOKEN]@x.com"
      [] name = "ip" /\ text = "10.0.0.1" -> "[IP]"
      [] name = "number" /\ text = "10.0.0.1" -> "[NUMBER].[NUMBER].[NUMBER].[NUMBER]"
      [] name = "number" /\ text = "42" -> "[NUMBER]"
      [] name = "number" /\ text = "13800138000" -> "[NUMBER]"
      [] OTHER -> text

\* A run: the function called, its argument, the text so far, the patterns
\* the range over the map has not visited yet, and the results returned by
\* the runs before. PreprocessText starts with strings.ToLower.
NewRun(func, text, done) ==
    [func |-> func,
     text |-> text,
     result |-> IF func = "PreprocessText" /\ text = " Timeout " THEN " timeout "
                ELSE text,
     pending |-> patterns(func),
     done |-> done]
NoRun == [func |-> "", text |-> "", result |-> "", pending |-> {}, done |-> <<>>]

\* One iteration of the loop over the map of patterns, which Go visits in an
\* order of its own choosing.
rangePatterns ==
    /\ \E name \in run.pending :
          run' = [run EXCEPT !.result = ReplaceAllString(name, @),
                             !.pending = @ \ {name}]
    /\ UNCHANGED <<now, last, req, agent, threads, ce, workers, watcher, breakerVars, bucketVars>>

\* The return (PreprocessText first collapses white space and trims), and
\* the next call with the same text.
returnResult ==
    /\ run.pending = {}
    /\ Len(run.done) < MaxRuns
    /\ LET result == IF run.func = "PreprocessText" /\ run.result = " timeout "
                     THEN "timeout" ELSE run.result
       IN run' = NewRun(run.func, run.text, Append(run.done, result))
    /\ UNCHANGED <<now, last, req, agent, threads, ce, workers, watcher, breakerVars, bucketVars>>

-----------------------------------------------------------------------------
(* package middleware and the gateway's chain:                            *)
(* CORS, HealthCheck, Authentication, RateLimit, CircuitBreaker,           *)
(* ErrorSampling, Metrics, then the proxy handler.                         *)

\* Requests: a preflight, the two probes, and proxied calls that succeed or
\* fail downstream.  errorKey is what the context holds under "error" when the
\* chain starts: the gateway's own chain leaves it unset, a chain that mounts a
\* stage ahead of these may have set it.
Requests ==
    { [method |-> "OPTIONS", path |-> "/api/svc", simulate |-> FALSE, errorKey |-> Nil],
      [method |-> "GET", path |-> "/health", simulate |-> FALSE, errorKey |-> Nil],
      [method |-> "GET", path |-> "/ready", simulate |-> FALSE, errorKey |-> Nil] }
    \cup
    { [method |-> "GET", path |-> "/api/svc", simulate |-> s, errorKey |-> k] :
         s \in BOOLEAN, k \in {Nil} \cup {Ptr(e) : e \in Signatures} }

\* The context of the n-th request before it arrives.
NoRequest(n) ==
    [seq |-> n, pc |-> "idle", method |-> "", path |-> "", simulate |-> FALSE,
     errorKey |-> Nil, clusterKey |-> Nil, status |-> 200, code |-> "",
     identify |-> "none", clusterID |-> "", trail |-> <<>>]

\* A call a stage makes on a collaborator.
Event(op, id, ret) == [op |-> op, id |-> id, ret |-> ret]

\* utils.ExtractErrorSignature: the message of the error under "error", if any.
ExtractErrorSignature(r) == IF r.errorKey = Nil THEN "" ELSE Deref(r.errorKey)

\* http.StatusText
StatusText(status) ==
    IF status = 500 THEN "Internal Server Error" ELSE "Service Unavailable"

\* The chain moves to its next stage, or stops with a response.
Goto(stage) == [req EXCEPT !.pc = stage]
Respond(status) == [req EXCEPT !.pc = "done", !.status = status]

\* A request enters the chain (Recovery, Logger and Tracing pass it on).
Arrive(r) ==
    /\ req.pc = "idle"
    /\ req.seq < MaxRequests
    /\ \A id \in DOMAIN clusters :
          /\ clusters[id].SuccessCount + 2 <= MaxCount
          /\ clusters[id].FailureCount < MaxCount
    /\ req' = [NoRequest(req.seq + 1) EXCEPT
                  !.pc = "CORS", !.method = r.method, !.path = r.path,
                  !.simulate = r.simulate, !.errorKey = r.errorKey]
    /\ last' = NoCall
    /\ UNCHANGED <<now, agent, threads, ce, workers, watcher, breakerVars, bucketVars, run>>

CORS ==
    /\ req.pc = "CORS"
    /\ req' = IF req.method = "OPTIONS" THEN Respond(204) ELSE Goto("HealthCheck")
    /\ last' = NoCall
    /\ UNCHANGED <<now, agent, threads, ce, workers, watcher, breakerVars, bucketVars, run>>

\* HealthCheck if the probes were answered and then passed down the chain.
HealthCheckNoAbort ==
    /\ req.pc = "HealthCheck"
    /\ req' = Goto("Authentication")
    /\ last' = NoCall
    /\ UNCHANGED <<now, agent, threads, ce, workers, watcher, breakerVars, bucketVars, run>>

\* The gateway hands the middleware a limiter and a breaker, so /ready is 200.
HealthCheck ==
    /\ req.pc = "HealthCheck"
    /\ req' = IF req.path \in {"/health", "/ready"}
              THEN Respond(200) ELSE Goto("Authentication")
    /\ last' = NoCall
    /\ UNCHANGED <<now, agent, threads, ce, workers, watcher, breakerVars, bucketVars, run>>

Authentication ==
    /\ req.pc = "Authentication"
    /\ req' = Goto("RateLimit")
    /\ last' = NoCall
    /\ UNCHANGED <<now, agent, threads, ce, workers, watcher, breakerVars, bucketVars, run>>

\* RateLimit if a denied request were answered 429 without aborting the chain.
RateLimitNoAbort(allowed) ==
    /\ req.pc = "RateLimit"
    /\ req' = [Goto("CircuitBreaker") EXCEPT
                  !.status = IF allowed THEN @ ELSE 429,
                  !.code = IF allowed THEN @ ELSE "RATE_LIMIT_EXCEEDED",
                  !.trail = Append(@, Event("rateLimiter.Allow", "", allowed))]
    /\ last' = NoCall
    /\ UNCHANGED <<now, agent, threads, ce, workers, watcher, breakerVars, bucketVars, run>>

\* allowed is the answer of rateLimiter.Allow(c).
RateLimit(allowed) ==
    /\ req.pc = "RateLimit"
    /\ req' = [(IF allowed THEN Goto("CircuitBreaker") ELSE Respond(429)) EXCEPT
                  !.code = IF allowed THEN @ ELSE "RATE_LIMIT_EXCEEDED",
                  !.trail = Append(@, Event("rateLimiter.Allow", "", allowed))]
    /\ last' = NoCall
    /\ UNCHANGED <<now, agent, threads, ce, workers, watcher, breakerVars, bucketVars, run>>

\* CircuitBreaker if a denied request were answered 503 without aborting the
\* chain.
CircuitBreakerNoAbort ==
    /\ req.pc = "CircuitBreaker"
    /\ LET errorSignature == ExtractErrorSignature(req) IN
       \E res \in IdentifyCluster(errorSignature) :
          LET clusterID == IF res.err = Ok THEN res.id ELSE ""
              a == allowCall(clusterID)
              r1 == [req EXCEPT
                        !.identify = IF errorSignature = "" THEN "none"
                                     ELSE IF res.err = Ok THEN "ok" ELSE "error",
                        !.clusterID = clusterID,
                        !.trail = Append(@, Event("circuitBreaker.Allow", clusterID, a.ret))]
          IN
          /\ agent' = [agent EXCEPT !.cache = res.cache]
          /\ clusters' = a.clusters
          /\ probes' = a.probes
          /\ last' = Call("Allow", clusterID, Nil, a.ret)
          /\ req' = IF a.ret
                    THEN [r1 EXCEPT !.clusterKey = Ptr(clusterID), !.pc = "proxyHandler"]
                    ELSE [r1 EXCEPT !.status = 503, !.code = "CIRCUIT_BREAKER_OPEN",
                                    !.clusterKey = Ptr(clusterID),
                                    !.pc = "proxyHandler"]
    /\ UNCHANGED <<now, config, published, threads, ce, workers, watcher, bucketVars, run>>

\* The part of CircuitBreaker before c.Next(): identify the cluster, ask the
\* breaker, answer 503 or store the id and go on (ErrorSampling and Metrics do
\* nothing before the handler).
CircuitBreaker ==
    /\ req.pc = "CircuitBreaker"
    /\ LET errorSignature == ExtractErrorSignature(req) IN
       \E res \in IdentifyCluster(errorSignature) :
          LET clusterID == IF res.err = Ok THEN res.id ELSE ""
              a == allowCall(clusterID)
              r1 == [req EXCEPT
                        !.identify = IF errorSignature = "" THEN "none"
                                     ELSE IF res.err = Ok THEN "ok" ELSE "error",
                        !.clusterID = clusterID,
                        !.trail = Append(@, Event("circuitBreaker.Allow", clusterID, a.ret))]
          IN
          /\ agent' = [agent EXCEPT !.cache = res.cache]
          /\ clusters' = a.clusters
          /\ probes' = a.probes
          /\ last' = Call("Allow", clusterID, Nil, a.ret)
          /\ req' = IF a.ret
                    THEN [r1 EXCEPT !.clusterKey = Ptr(clusterID), !.pc = "proxyHandler"]
                    ELSE [r1 EXCEPT !.status = 503, !.code = "CIRCUIT_BREAKER_OPEN",
                                    !.pc = "done"]
    /\ UNCHANGED <<now, config, published, threads, ce, workers, watcher, bucketVars, run>>

\* Gateway.proxyHandler
proxyHandler ==
    /\ req.pc = "proxyHandler"
    /\ req' = [req EXCEPT !.status = IF req.simulate THEN 500 ELSE 200,
                          !.pc = "Metrics",
                          !.trail = Append(@, Event("proxyHandler", "", req.simulate))]
    /\ last' = NoCall
    /\ UNCHANGED <<now, agent, threads, ce, workers, watcher, breakerVars, bucketVars, run>>

\* The part of Metrics after c.Next().
Metrics ==
    /\ req.pc = "Metrics"
    /\ req' = [req EXCEPT
                  !.pc = "ErrorSampling",
                  !.trail = Append(@, Event("metrics.RecordRequest",
                                            Deref(req.clusterKey), req.status))]
    /\ last' = NoCall
    /\ UNCHANGED <<now, agent, threads, ce, workers, watcher, breakerVars, bucketVars, run>>

\* The part of ErrorSampling after c.Next() (no stage adds to c.Errors).
ErrorSampling ==
    /\ req.pc = "ErrorSampling"
    /\ req' = IF req.status >= 400
              THEN [req EXCEPT
                       !.pc = "CircuitBreakerRecord",
                       !.errorKey = Ptr(StatusText(req.status)),
                       !.trail = Append(@, Event("errorSampler.SampleError", "",
                                                 StatusText(req.status)))]
              ELSE Goto("CircuitBreakerRecord")
    /\ last' = NoCall
    /\ UNCHANGED <<now, agent, threads, ce, workers, watcher, breakerVars, bucketVars, run>>

\* The part of CircuitBreaker after c.Next().
CircuitBreakerRecord ==
    /\ req.pc = "CircuitBreakerRecord"
    /\ LET failed == req.status >= 500
           op == IF failed THEN "RecordFailure" ELSE "RecordSuccess"
           r == IF failed THEN recordFailureCall(req.clusterID)
                ELSE recordSuccessCall(req.clusterID)
       IN
       /\ clusters' = r.clusters
       /\ probes' = r.probes
       /\ last' = Call(op, req.clusterID, Nil, Ok)
       /\ req' = [req EXCEPT
                     !.pc = "done",
                     !.trail = Append(@, Event("circuitBreaker." \o op, req.clusterID, Ok))]
    /\ UNCHANGED <<now, config, published, agent, threads, ce, workers, watcher, bucketVars, run>>

\* The response is out: the engine takes the context back.
Release ==
    /\ req.pc = "done"
    /\ req' = NoRequest(req.seq)
    /\ last' = NoCall
    /\ UNCHANGED <<now, agent, threads, ce, workers, watcher, breakerVars, bucketVars, run>>

\* The policies that change what the breaker does; any other only replaces the
\* policy pointer an entry holds.
BreakPolicyPtrs ==
    {p \in PolicyPtrs : p # Nil /\ Deref(p).CircuitBreak # Nil}

\* Gateway.OnPolicyUpdate: the limiter's and then the breaker's UpdatePolicy.
OnPolicyUpdate(clusterID, policy) == Yielding /\ UpdatePolicy(clusterID, policy)

\* Variant of OnPolicyDelete: the cluster's breaker entry is dropped.
OnPolicyDeleteDrops(clusterID) ==
    /\ "gateway" \in watcher.callbacks
    /\ \E i \in 1..Len(watcher.events) :
          /\ i < Deref(watcher.watchChan)
          /\ watcher.events[i].Type = "DELETE"
          /\ watcher.events[i].Key = clusterID
    /\ clusters' = [id \in DOMAIN clusters \ {clusterID} |-> clusters[id]]
    /\ last' = Call("OnPolicyDelete", clusterID, Nil, Ok)
    /\ UNCHANGED <<now, config, published, probes, bucketVars, pipelineVars>>

\* Gateway.OnPolicyDelete, in a goroutine of notifyPolicyDelete: it logs and
\* returns nil.  The goroutines are not counted: the call may run whenever a
\* delete of that key has been handled with the gateway registered.
OnPolicyDelete(clusterID) ==
    /\ "gateway" \in watcher.callbacks
    /\ \E i \in 1..Len(watcher.events) :
          /\ i < Deref(watcher.watchChan)
          /\ watcher.events[i].Type = "DELETE"
          /\ watcher.events[i].Key = clusterID
    /\ last' = Call("OnPolicyDelete", clusterID, Nil, Ok)
    /\ UNCHANGED <<now, breakerVars, bucketVars, pipelineVars>>

-----------------------------------------------------------------------------
(* The breaker on its own *)

\* NewClusterCircuitBreaker: the configuration given, no entries.
Init ==
    /\ now = StartTime
    /\ config \in Configs
    /\ published \in PolicyKeys
    /\ clusters = [id \in {} |-> newBreaker]
    /\ probes = [id \in ClusterIDs |-> 0]
    /\ last = NoCall
    /\ tb = NewTokenBucket(0, 0, StartTime)
    /\ win = Window(StartTime)
    /\ req = NoRequest(0)
    /\ agent = NewVectorAgent(Nil, [id \in {} |-> <<>>])
    /\ threads = NoThreads
    /\ workers = NoWorkers
    /\ run = NoRun
    /\ watcher = NoWatcher
    /\ ce = NoEngine

Next ==
    \/ Tick
    \/ \E id \in ClusterIDs : Allow(id)
    \/ \E id \in ClusterIDs : RecordSuccess(id)
    \/ \E id \in ClusterIDs : RecordFailure(id)
    \/ \E id \in ClusterIDs : GetState(id)
    \/ \E id \in PolicyKeys, p \in PolicyPtrs : UpdatePolicy(id, p)

Spec == Init /\ [][Next]_vars

-----------------------------------------------------------------------------
(* The token bucket on its own *)

\* NewTokenBucket with a capacity and a rate.
InitBucket ==
    /\ now = StartTime
    /\ \E capacity \in 1..MaxCapacity, rate \in 0..MaxRate :
          tb = NewTokenBucket(capacity, rate, StartTime)
    /\ win = Window(StartTime)
    /\ last = NoCall
    /\ config \in {c \in Configs : c.FailureThreshold = 1}
    /\ published = ""
    /\ clusters = [id \in {} |-> newBreaker]
    /\ probes = [id \in ClusterIDs |-> 0]
    /\ req = NoRequest(0)
    /\ agent = NewVectorAgent(Nil, [id \in {} |-> <<>>])
    /\ threads = NoThreads
    /\ workers = NoWorkers
    /\ run = NoRun
    /\ watcher = NoWatcher
    /\ ce = NoEngine

NextBucket ==
    \/ Tick
    \/ Observe
    \/ TokenBucketAllow
    \/ \E n \in 0..MaxCapacity : TokenBucketAllowN(n)
    \/ \E rate \in 0..MaxRate : TokenBucketSetRate(rate)
    \/ TokenBucketGetTokens
    \/ TokenBucketGetRate
    \/ TokenBucketReset
    \/ TokenBucketIsEmpty
    \/ TokenBucketIsFull
    \/ TokenBucketGetCapacity
    \/ \E capacity \in 0..MaxCapacity : TokenBucketSetCapacity(capacity)

SpecBucket == InitBucket /\ [][NextBucket]_vars

\* utils.tokenBucket: the same fields and the same refill; SetRate refills
\* before it sets the rate.
tokenBucketSetRate(rate) ==
    /\ tb' = [refill(tb, now) EXCEPT !.refillRate = rate]
    /\ win' = [win EXCEPT !.steady = @ /\ rate = tb.refillRate]
    /\ last' = BucketCall("tokenBucket.SetRate", Ptr(rate), Ok)
    /\ UNCHANGED <<now, breakerVars, pipelineVars>>

NextBucketUtils ==
    \/ Tick
    \/ Observe
    \/ TokenBucketAllow
    \/ \E rate \in 0..MaxRate : tokenBucketSetRate(rate)
    \/ TokenBucketGetTokens
    \/ TokenBucketGetCapacity

SpecBucketUtils == InitBucket /\ [][NextBucketUtils]_vars

-----------------------------------------------------------------------------
(* The gateway: requests through the chain, policies from the watcher *)

\* NewGateway: an agent (the gateway's has no embedding service and no
\* clusters), a breaker without entries.
InitPipeline ==
    /\ now = StartTime
    /\ config \in Configs
    /\ published \in PolicyKeys
    /\ clusters = [id \in {} |-> newBreaker]
    /\ probes = [id \in ClusterIDs |-> 0]
    /\ last = NoCall
    /\ tb = NewTokenBucket(0, 0, StartTime)
    /\ win = Window(StartTime)
    /\ req = NoRequest(0)
    /\ agent \in Agents
    /\ threads = NoThreads
    /\ workers = NoWorkers
    /\ run = NoRun
    /\ watcher = NoWatcher
    /\ ce = NoEngine

NextPipeline ==
    \/ Tick
    \/ \E r \in Requests : Arrive(r)
    \/ CORS
    \/ HealthCheck
    \/ Authentication
    \/ \E allowed \in BOOLEAN : RateLimit(allowed)
    \/ CircuitBreaker
    \/ proxyHandler
    \/ Metrics
    \/ ErrorSampling
    \/ CircuitBreakerRecord
    \/ Release
    \/ \E id \in PolicyKeys, p \in BreakPolicyPtrs : OnPolicyUpdate(id, p)

SpecPipeline == InitPipeline /\ [][NextPipeline]_vars

-----------------------------------------------------------------------------
(* The vectorAgent under concurrent callers: IdentifyCluster step by step, *)
(* UpdateClusters from the cluster watcher                                  *)

\* Cluster tables UpdateClusters may be handed: one cluster; two clusters with
\* the same centroid; two clusters that both resemble "refused", one of them
\* more.
ClusterTables ==
    { [id \in {"K1"} |-> <<1, 0>>],
      [id \in {"K1", "K2"} |-> <<1, 0>>],
      [id \in {"K1", "K2"} |-> IF id = "K1" THEN <<3, 4>> ELSE <<4, 3>>] }

\* What a call of the agent returns.
AgentCall(op, t, sig, id, err) ==
    [op |-> op, id |-> id, arg |-> Ptr(sig), ret |-> err, from |-> t, n |-> 0]

\* A caller leaves IdentifyCluster with (id, err).
return(t, id, err) ==
    /\ threads' = [threads EXCEPT ![t].pc = "idle", ![t].id = id]
    /\ last' = AgentCall("IdentifyCluster", t, threads[t].sig, id, err)

\* IdentifyCluster is entered; the empty signature is answered at once.
IdentifyClusterEnter(t, errorSignature) ==
    /\ threads[t].pc = "idle"
    /\ IF errorSignature = ""
       THEN /\ threads' = [threads EXCEPT ![t] = Idle]
            /\ last' = AgentCall("IdentifyCluster", t, "", "", Ok)
       ELSE /\ threads' = [threads EXCEPT ![t] = [Idle EXCEPT !.pc = "cache.Get",
                                                              !.sig = errorSignature]]
            /\ last' = NoCall
    /\ UNCHANGED <<now, agent, req, ce, workers, watcher, breakerVars, bucketVars, run>>

\* va.cache.Get, under the cache's own lock only: a hit returns the cached id.
IdentifyClusterGet(t) ==
    /\ threads[t].pc = "cache.Get"
    /\ IF cacheFound(agent.cache, threads[t].sig, now)
       THEN /\ threads' = [threads EXCEPT ![t].pc = "idle", ![t].hit = TRUE,
                                          ![t].id = agent.cache[threads[t].sig].value]
            /\ last' = AgentCall("IdentifyCluster", t, threads[t].sig,
                                 agent.cache[threads[t].sig].value, Ok)
            /\ agent' = agent
       ELSE /\ threads' = [threads EXCEPT ![t].pc = "GenerateVector"]
            /\ last' = NoCall
            /\ agent' = [agent EXCEPT !.cache = cacheAfterGet(@, threads[t].sig, now)]
    /\ UNCHANGED <<now, req, ce, workers, watcher, breakerVars, bucketVars, run>>

\* va.GenerateVector: an error ends the call.
IdentifyClusterGenerate(t) ==
    /\ threads[t].pc = "GenerateVector"
    /\ LET gen == GenerateVector(threads[t].sig)
       IN IF gen.err # Ok
          THEN return(t, "", "failed to generate vector")
          ELSE /\ threads' = [threads EXCEPT ![t].pc = "findMostSimilarCluster",
                                             ![t].vector = gen.vector]
               /\ last' = NoCall
    /\ UNCHANGED <<now, agent, req, ce, workers, watcher, breakerVars, bucketVars, run>>

\* va.findMostSimilarCluster, under va.mutex.RLock: not while UpdateClusters
\* holds the lock.  No match ends the call with no id.
IdentifyClusterFind(t) ==
    /\ threads[t].pc = "findMostSimilarCluster"
    /\ threads[Updater].pc = "idle"
    /\ \E c \in findMostSimilarCluster(threads[t].vector) :
          IF c = ""
          THEN /\ threads' = [threads EXCEPT ![t].pc = "idle", ![t].id = "",
                                             ![t].seen = agent.clusters]
               /\ last' = AgentCall("IdentifyCluster", t, threads[t].sig, "", Ok)
          ELSE /\ threads' = [threads EXCEPT ![t].pc = "cache.Set", ![t].id = c,
                                             ![t].seen = agent.clusters]
               /\ last' = NoCall
    /\ UNCHANGED <<now, agent, req, ce, workers, watcher, breakerVars, bucketVars, run>>

\* va.cache.Set, under the cache's own lock only, then the return.
IdentifyClusterSet(t) ==
    /\ threads[t].pc = "cache.Set"
    /\ agent' = [agent EXCEPT
                   !.cache = cacheSet(@, threads[t].sig, threads[t].id, CacheTTL, now)]
    /\ return(t, threads[t].id, Ok)
    /\ UNCHANGED <<now, req, ce, workers, watcher, breakerVars, bucketVars, run>>

\* UpdateClusters takes va.mutex and replaces the snapshot by a copy of the
\* table; it waits for the readers of the snapshot, of which a step holds none.
UpdateClustersReplace(table) ==
    /\ threads[Updater].pc = "idle"
    /\ agent' = [agent EXCEPT !.clusters = table]
    /\ threads' = [threads EXCEPT ![Updater].pc = "cache.Clear"]
    /\ last' = NoCall
    /\ UNCHANGED <<now, req, ce, workers, watcher, breakerVars, bucketVars, run>>

\* UpdateClusters clears the cache, releases va.mutex and returns.
UpdateClustersClear ==
    /\ threads[Updater].pc = "cache.Clear"
    /\ agent' = [agent EXCEPT !.cache = [k \in {} |-> [value |-> "", expiredAt |-> ZeroTime]]]
    /\ threads' = [threads EXCEPT ![Updater].pc = "idle"]
    /\ last' = AgentCall("UpdateClusters", Updater, "", "", Ok)
    /\ UNCHANGED <<now, req, ce, workers, watcher, breakerVars, bucketVars, run>>

\* An agent with or without an embedding service, and no clusters yet.
InitAgent ==
    /\ now = StartTime
    /\ config = CHOOSE c \in Configs : TRUE
    /\ published = ""
    /\ clusters = [id \in {} |-> newBreaker]
    /\ probes = [id \in ClusterIDs |-> 0]
    /\ last = NoCall
    /\ tb = NewTokenBucket(0, 0, StartTime)
    /\ win = Window(StartTime)
    /\ req = NoRequest(0)
    /\ agent \in {NewVectorAgent(e, [id \in {} |-> <<>>]) : e \in {Nil, Ptr("embeddingService")}}
    /\ threads = NoThreads
    /\ workers = NoWorkers
    /\ run = NoRun
    /\ watcher = NoWatcher
    /\ ce = NoEngine

NextAgent ==
    \/ Tick
    \/ \E t \in Callers, sig \in Signatures \cup {""} : IdentifyClusterEnter(t, sig)
    \/ \E t \in Callers : IdentifyClusterGet(t)
    \/ \E t \in Callers : IdentifyClusterGenerate(t)
    \/ \E t \in Callers : IdentifyClusterFind(t)
    \/ \E t \in Callers : IdentifyClusterSet(t)
    \/ \E table \in ClusterTables : UpdateClustersReplace(table)
    \/ UpdateClustersClear

SpecAgent == InitAgent /\ [][NextAgent]_vars

-----------------------------------------------------------------------------
(* The clustering engine: error events from the consumer, re-clustering from *)
(* the ticker                                                                *)

InitClustering ==
    /\ now = StartTime
    /\ config = CHOOSE c \in Configs : TRUE
    /\ published = ""
    /\ clusters = [id \in {} |-> newBreaker]
    /\ probes = [id \in ClusterIDs |-> 0]
    /\ last = NoCall
    /\ tb = NewTokenBucket(0, 0, StartTime)
    /\ win = Window(StartTime)
    /\ req = NoRequest(0)
    /\ agent = NewVectorAgent(Nil, [id \in {} |-> <<>>])
    /\ threads = NoThreads
    /\ workers = NoWorkers
    /\ run = NoRun
    /\ watcher = NoWatcher
    /\ ce \in {NewClusteringEngine(c) : c \in ClusteringConfigs}

NextClustering ==
    \/ Tick
    \/ \E event \in ErrorEvents : ProcessErrorEvent(event)
    \/ ReCluster

SpecClustering == InitClustering /\ [][NextClustering]_vars

-----------------------------------------------------------------------------
(* The clustering engine under concurrent ProcessErrorEvent calls, step by   *)
(* step, with no re-clustering                                               *)

InitIngest ==
    /\ now = StartTime
    /\ config = CHOOSE c \in Configs : TRUE
    /\ published = ""
    /\ clusters = [id \in {} |-> newBreaker]
    /\ probes = [id \in ClusterIDs |-> 0]
    /\ last = NoCall
    /\ tb = NewTokenBucket(0, 0, StartTime)
    /\ win = Window(StartTime)
    /\ req = NoRequest(0)
    /\ agent = NewVectorAgent(Nil, [id \in {} |-> <<>>])
    /\ threads = NoThreads
    /\ workers = NoWorkers
    /\ run = NoRun
    /\ watcher = NoWatcher
    /\ ce \in {NewClusteringEngine(c) : c \in ClusteringConfigs}

NextIngest ==
    \/ \E w \in Workers, event \in ErrorEvents : ProcessErrorEventEnter(w, event)
    \/ \E w \in Workers : ProcessErrorEventFind(w)
    \/ \E w \in Workers : ProcessErrorEventCreate(w)
    \/ \E w \in Workers : addEventToClusterLoad(w)
    \/ \E w \in Workers : addEventToClusterStore(w)

SpecIngest == InitIngest /\ [][NextIngest]_vars

-----------------------------------------------------------------------------
(* The config watcher: Gateway.Start, the store's events, the callbacks *)

InitWatcher ==
    /\ now = StartTime
    /\ config = CHOOSE c \in Configs : TRUE
    /\ published = ""
    /\ clusters = [id \in {} |-> newBreaker]
    /\ probes = [id \in ClusterIDs |-> 0]
    /\ last = NoCall
    /\ tb = NewTokenBucket(0, 0, StartTime)
    /\ win = Window(StartTime)
    /\ req = NoRequest(0)
    /\ agent = NewVectorAgent(Nil, [id \in {} |-> <<>>])
    /\ threads = NoThreads
    /\ workers = NoWorkers
    /\ run = NoRun
    /\ ce = NoEngine
    /\ \E keys \in SUBSET PolicyKeys :
          watcher \in {NewConfigWatcher(kv) : kv \in [keys -> PolicyValues]}

NextWatcher ==
    \/ Tick
    \/ \E event \in PolicyEvents : Commit(event)
    \/ loadExistingPolicies
    \/ WatchPolicyUpdates
    \/ RegisterCallback
    \/ watchLoop
    \/ goOnPolicyUpdate

SpecWatcher == InitWatcher /\ [][NextWatcher]_vars

\* The watcher beside the breaker: the policies of one cluster are put and
\* deleted in the store while the gateway updates and uses that cluster's
\* breaker.
PolicyCluster == "K1"

InitDelete ==
    /\ now = StartTime
    /\ config \in {c \in Configs : c.FailureThreshold = 1}
    /\ published = PolicyCluster
    /\ clusters = [id \in {} |-> newBreaker]
    /\ probes = [id \in ClusterIDs |-> 0]
    /\ last = NoCall
    /\ tb = NewTokenBucket(0, 0, StartTime)
    /\ win = Window(StartTime)
    /\ req = NoRequest(0)
    /\ agent = NewVectorAgent(Nil, [id \in {} |-> <<>>])
    /\ threads = NoThreads
    /\ workers = NoWorkers
    /\ run = NoRun
    /\ ce = NoEngine
    /\ watcher = NewConfigWatcher([k \in {PolicyCluster} |->
                                     [json |-> "object", expire_time |-> MaxTime]])

NextDelete ==
    \/ \E event \in {e \in PolicyEvents : e.Key = PolicyCluster} : Commit(event)
    \/ loadExistingPolicies
    \/ WatchPolicyUpdates
    \/ RegisterCallback
    \/ watchLoop
    \/ goOnPolicyUpdate
    \/ \E p \in PolicyPtrs : UpdatePolicy(PolicyCluster, p)
    \/ RecordFailure(PolicyCluster)
    \/ OnPolicyDelete(PolicyCluster)

SpecDelete == InitDelete /\ [][NextDelete]_vars

-----------------------------------------------------------------------------
(* The clustering engine from Start to Stop: error events, the ticker, the   *)
(* goroutine that re-clusters                                                *)

NextLifecycle ==
    \/ \E event \in ErrorEvents : ProcessErrorEvent(event)
    \/ clusteringEngineStart
    \/ reclusterTickerFire
    \/ reclusterLoop
    \/ clusteringEngineStop

SpecLifecycle == InitClustering /\ [][NextLifecycle]_vars

-----------------------------------------------------------------------------
(* The clustering engine under concurrent ProcessErrorEvent calls and        *)
(* re-clustering, with the write lock and the calls of the vector store      *)

NextConcurrent ==
    \/ \E w \in Workers, event \in ErrorEvents : ProcessErrorEventEnter(w, event)
    \/ \E w \in Workers : ce.mutex = "" /\ ProcessErrorEventFind(w)
    \/ \E w \in Workers : CreateNewClusterLock(w)
    \/ \E w \in Workers : CreateNewClusterAddVector(w)
    \/ \E w \in Workers : addEventToClusterLoad(w)
    \/ \E w \in Workers : addEventToClusterStore(w)
    \/ ReClusterConcurrent

SpecConcurrent == InitIngest /\ [][NextConcurrent]_vars

-----------------------------------------------------------------------------
(* Desensitize and PreprocessText, called again and again with one text *)

InitRuns ==
    /\ now = StartTime
    /\ config = CHOOSE c \in Configs : TRUE
    /\ published = ""
    /\ clusters = [id \in {} |-> newBreaker]
    /\ probes = [id \in ClusterIDs |-> 0]
    /\ last = NoCall
    /\ tb = NewTokenBucket(0, 0, StartTime)
    /\ win = Window(StartTime)
    /\ req = NoRequest(0)
    /\ agent = NewVectorAgent(Nil, [id \in {} |-> <<>>])
    /\ threads = NoThreads
    /\ workers = NoWorkers
    /\ watcher = NoWatcher
    /\ ce = NoEngine
    /\ run \in {NewRun(func, text, <<>>) :
                   func \in {"Desensitize", "PreprocessText"}, text \in Texts}

NextRuns ==
    \/ rangePatterns
    \/ returnResult

SpecRuns == InitRuns /\ [][NextRuns]_vars

-----------------------------------------------------------------------------
(* The circuit breaker's properties *)

Has(id) == id \in DOMAIN clusters

\* The shape of the breaker's state.
TypeOK ==
    /\ now \in StartTime..MaxTime
    /\ config \in Configs
    /\ DOMAIN clusters \subseteq ClusterIDs
    /\ \A id \in DOMAIN clusters :
          /\ clusters[id].State \in BreakerStates
          /\ clusters[id].FailureCount \in 0..MaxCount
          /\ clusters[id].SuccessCount \in 0..MaxCount

\* failure_threshold * recovery_increment, rounded to the nearest integer.
roundedRecovery(cfg) == (cfg.FailureThreshold * cfg.RecoveryIncrement + 50) \div 100

\* C1: Allow returns false only for a cluster that has an entry in OPEN whose
\* next-retry time the clock has not reached yet; for the empty id, an unknown
\* cluster, a CLOSED and a HALF_OPEN breaker it returns true; the state is
\* always one of CLOSED, OPEN, HALF_OPEN.
C1_DeniesOnlyBeforeRetry ==
    /\ \A id \in DOMAIN clusters : clusters[id].State \in BreakerStates
    /\ last.op = "Allow" =>
          /\ last.ret = FALSE =>
                /\ last.id # ""
                /\ Has(last.id)
                /\ last.from = BreakerStateOpen
                /\ clusters[last.id].State = BreakerStateOpen
                /\ now < clusters[last.id].NextRetry
          /\ (last.id = "" \/ last.from \in {NoBreaker, BreakerStateClosed,
                                             BreakerStateHalfOpen}) =>
                last.ret = TRUE

\* C2: a CLOSED breaker stays CLOSED while fewer than failure_threshold failures
\* have been recorded since its counters were zero, and the failure that makes
\* the count reach failure_threshold leaves it OPEN with NextRetry = the time of
\* that failure + recovery_timeout, so that an Allow made before that time
\* returns false.
C2_TripsAtThreshold ==
    /\ \A id \in DOMAIN clusters :
          clusters[id].State = BreakerStateClosed =>
             clusters[id].FailureCount < config.FailureThreshold
    /\ (last.op = "RecordFailure" /\ last.from = BreakerStateClosed) =>
          LET b == clusters[last.id] IN
          IF b.FailureCount < b.Config.FailureThreshold
          THEN b.State = BreakerStateClosed
          ELSE /\ b.FailureCount = b.Config.FailureThreshold
               /\ b.State = BreakerStateOpen
               /\ b.NextRetry = now + b.Config.RecoveryTimeout
               /\ \A t \in now..(b.NextRetry - 1) :
                     /\ allowOn(b, t).ret = FALSE
                     /\ allowOn(b, t).b = b

C2_Witness ==
    /\ last.op = "RecordFailure"
    /\ last.from = BreakerStateClosed
    /\ config.FailureThreshold = MaxThreshold
    /\ clusters[last.id].State = BreakerStateOpen
    /\ clusters[last.id].FailureCount = config.FailureThreshold
    /\ clusters[last.id].SuccessCount = 0

\* C3: while a breaker is OPEN and the clock is before NextRetry, Allow returns
\* false and leaves it OPEN; RecordSuccess and RecordFailure on an OPEN breaker
\* change neither the state nor NextRetry.
C3_OpenHolds ==
    [][\A id \in DOMAIN clusters :
          (clusters[id].State = BreakerStateOpen /\ last'.id = id /\ id # "") =>
             /\ last'.op \in {"RecordSuccess", "RecordFailure"} =>
                   /\ clusters'[id].State = BreakerStateOpen
                   /\ clusters'[id].NextRetry = clusters[id].NextRetry
             /\ (last'.op = "Allow" /\ now < clusters[id].NextRetry) =>
                   /\ last'.ret = FALSE
                   /\ clusters'[id] = clusters[id]]_vars

C3_Witness ==
    /\ last.op = "Allow"
    /\ last.ret = FALSE
    /\ now < clusters[last.id].NextRetry
    /\ clusters[last.id].FailureCount > config.FailureThreshold
    /\ clusters[last.id].SuccessCount >= 2

\* C4: an Allow on an OPEN breaker at a time >= NextRetry (the instant
\* now = NextRetry included) moves it to HALF_OPEN and returns true.
C4_HalfOpensAtRetry ==
    (last.op = "Allow" /\ last.id # "" /\ last.from = BreakerStateOpen
       /\ now >= clusters[last.id].NextRetry) =>
          /\ clusters[last.id].State = BreakerStateHalfOpen
          /\ last.ret = TRUE

\* C5: a RecordSuccess on a HALF_OPEN breaker closes it exactly when the
\* successes recorded in this HALF_OPEN period reach failure_threshold *
\* recovery_increment (rounded), and closing resets both counters.
C5_ClosesOnHalfOpenSuccesses ==
    (last.op = "RecordSuccess" /\ last.from = BreakerStateHalfOpen) =>
       LET b == clusters[last.id] IN
       /\ b.State = BreakerStateClosed <=> last.n >= roundedRecovery(b.Config)
       /\ b.State = BreakerStateClosed =>
             b.FailureCount = 0 /\ b.SuccessCount = 0

\* C6: a RecordFailure on a HALF_OPEN breaker leaves it OPEN with NextRetry =
\* now + the recovery timeout of the breaker's current configuration, whatever
\* the counters.
C6_HalfOpenFailureReopens ==
    (last.op = "RecordFailure" /\ last.from = BreakerStateHalfOpen) =>
       /\ clusters[last.id].State = BreakerStateOpen
       /\ clusters[last.id].NextRetry = now + clusters[last.id].Config.RecoveryTimeout

C6_Witness ==
    /\ last.op = "RecordFailure"
    /\ last.from = BreakerStateHalfOpen
    /\ clusters[last.id].State = BreakerStateOpen
    /\ clusters[last.id].FailureCount < config.FailureThreshold
    /\ clusters[last.id].Config.RecoveryTimeout # config.RecoveryTimeout

\* C7: for the empty id and for an id without an entry, Allow returns true,
\* GetState returns CLOSED, RecordSuccess and RecordFailure return nil, and the
\* call neither creates an entry nor changes any entry.
C7_BypassChangesNothing ==
    [][(last'.op \in {"Allow", "GetState", "RecordSuccess", "RecordFailure"}
          /\ (last'.id = "" \/ ~Has(last'.id))) =>
             /\ clusters' = clusters
             /\ last'.op = "Allow" => last'.ret = TRUE
             /\ last'.op = "GetState" => last'.ret = BreakerStateClosed
             /\ last'.op \in {"RecordSuccess", "RecordFailure"} => last'.ret = Ok]_vars

C7_Witness ==
    /\ last.op = "Allow"
    /\ last.id = ""
    /\ last.ret = TRUE
    /\ Has("")
    /\ clusters[""].State = BreakerStateOpen
    /\ now < clusters[""].NextRetry

\* C8: UpdatePolicy with a circuit-break policy (its parameters present) of
\* severity >= 0.8 leaves the breaker OPEN with NextRetry = now + BreakDuration
\* whatever it found; with severity < 0.8 it replaces the recovery timeout and
\* the recovery increment (and the policy held) and nothing else; with a nil
\* policy it returns an error and changes nothing.
C8_UpdatePolicy ==
    [][last'.op = "UpdatePolicy" =>
          IF last'.arg = Nil
          THEN last'.ret = "error" /\ clusters' = clusters
          ELSE LET id == last'.id
                   p == Deref(last'.arg)
                   pre == IF Has(id) THEN clusters[id] ELSE newBreaker
                   post == clusters'[id]
               IN
               /\ last'.ret = Ok
               /\ (p.PolicyType = PolicyTypeCircuitBreak /\ p.CircuitBreak # Nil) =>
                     IF p.Severity >= ImmediateBreakSeverity
                     THEN /\ post.State = BreakerStateOpen
                          /\ post.NextRetry = now + Deref(p.CircuitBreak).BreakDuration
                     ELSE post = [pre EXCEPT
                                    !.Policy = last'.arg,
                                    !.Config.RecoveryTimeout =
                                        Deref(p.CircuitBreak).BreakDuration,
                                    !.Config.RecoveryIncrement =
                                        Deref(p.CircuitBreak).RecoveryStep]]_vars

C8_Witness ==
    /\ last.op = "UpdatePolicy"
    /\ last.from = BreakerStateHalfOpen
    /\ last.arg # Nil
    /\ Deref(last.arg).Severity = ImmediateBreakSeverity
    /\ clusters[last.id].State = BreakerStateOpen
    /\ clusters[last.id].FailureCount = 0
    /\ clusters[last.id].NextRetry = now + Deref(Deref(last.arg).CircuitBreak).BreakDuration

-----------------------------------------------------------------------------
(* The chain's and the token bucket's properties *)

\* The call the breaker middleware made to the breaker's Allow for the request
\* in flight, if it made one.
AllowEvents ==
    {req.trail[i] : i \in {j \in 1..Len(req.trail) :
                              req.trail[j].op = "circuitBreaker.Allow"}}

\* C9: when IdentifyCluster returns an error, the breaker middleware calls
\* Allow with the empty cluster id, Allow returns true and the request goes on
\* to the handler; its response is neither 429 nor 503.
C9_FailOpen ==
    req.identify = "error" =>
       /\ req.clusterID = ""
       /\ AllowEvents = {Event("circuitBreaker.Allow", "", TRUE)}
       /\ req.clusterKey = Ptr("")
       /\ req.pc \in {"proxyHandler", "Metrics", "ErrorSampling",
                      "CircuitBreakerRecord", "done"}
       /\ req.status \notin {429, 503}
       /\ req.pc = "done" =>
             \E i \in 1..Len(req.trail) : req.trail[i].op = "proxyHandler"

C9_Witness ==
    /\ req.identify = "error"
    /\ req.pc = "done"
    /\ agent.embeddingService = Nil
    /\ Has("")
    /\ clusters[""].State = BreakerStateOpen
    /\ now < clusters[""].NextRetry

\* C10: while capacity and rate stay as they are, the Allow calls that return
\* true in an interval of observation are at most capacity + floor(rate *
\* length of the interval), and at most the calls made.
C10_Conservation ==
    win.steady =>
       /\ win.granted <= tb.capacity + ((now - win.since) * tb.refillRate) \div RateScale
       /\ win.granted <= win.calls

C10_Witness ==
    /\ win.steady
    /\ last.op = "TokenBucket.Allow"
    /\ last.ret = TRUE
    /\ now > win.since
    /\ win.granted > tb.capacity
    /\ win.granted = tb.capacity + ((now - win.since) * tb.refillRate) \div RateScale

\* The tokens a refill at clock reading t adds to b before the cap.
credit(b, t) ==
    IF t > b.lastRefill THEN ((t - b.lastRefill) * b.refillRate) \div RateScale ELSE 0

\* The calls that refill first.
RefillingOps ==
    {"TokenBucket.Allow", "TokenBucket.AllowN", "TokenBucket.GetTokens",
     "TokenBucket.IsEmpty", "TokenBucket.IsFull"}

\* C11: a refill that adds no token leaves the last-refill time as it was, so
\* that the time waited so far still counts toward the next token.
C11_ZeroRefillKeepsL ==
    [][(last'.op \in RefillingOps /\ tb.refillRate > 0 /\ credit(tb, now) = 0) =>
          tb'.lastRefill = tb.lastRefill]_<<tb, last.op>>

\* C12: SetRate(r') leaves the bucket as a refill at the old rate followed by
\* the change of rate leaves it: tokens and last-refill time brought up to
\* now, then the rate replaced.
C12_SetRateCreditsFirst ==
    [][last'.op \in {"TokenBucket.SetRate", "tokenBucket.SetRate"} =>
          tb' = [refill(tb, now) EXCEPT !.refillRate = Deref(last'.arg)]]_<<tb, last.op>>

-----------------------------------------------------------------------------
(* The vectorAgent's properties *)

\* The similarity of a caller's vector to a centroid of the snapshot in force.
score(t, k) == CosineSimilarity(threads[t].vector, agent.clusters[k])
matches(t) == {k \in DOMAIN agent.clusters : AtLeast(score(t, k), similarityThreshold)}

\* C13: on a cache miss with a working embedding service, IdentifyCluster
\* returns a cluster only if it is in the snapshot in force, no centroid of the
\* snapshot is more similar to the vector, and its similarity is at least the
\* threshold; that mapping is then in the cache.  When no cluster is at the
\* threshold it returns no id and leaves the cache as it was.
C13_NearestAboveThreshold ==
    [][\A t \in Callers :
         /\ (threads[t].pc = "findMostSimilarCluster" /\ threads'[t] # threads[t]) =>
               IF matches(t) = {}
               THEN /\ threads'[t].pc = "idle"
                    /\ last'.op = "IdentifyCluster" /\ last'.id = "" /\ last'.ret = Ok
                    /\ agent'.cache = agent.cache
               ELSE /\ threads'[t].pc = "cache.Set"
                    /\ threads'[t].id \in matches(t)
                    /\ \A k \in DOMAIN agent.clusters :
                          ~Greater(score(t, k), score(t, threads'[t].id))
         /\ (threads[t].pc = "cache.Set" /\ threads'[t] # threads[t]) =>
               /\ last'.op = "IdentifyCluster" /\ last'.id = threads[t].id
               /\ threads[t].sig \in DOMAIN agent'.cache
               /\ agent'.cache[threads[t].sig].value = threads[t].id
    ]_<<threads, agent>>

\* A caller has returned the nearer of two clusters that both reach the
\* threshold, after a miss, and the cache holds it.
C13_Witness ==
    /\ last.op = "IdentifyCluster" /\ last.id = "K2" /\ last.arg = Ptr("refused")
    /\ \E t \in Callers :
          /\ last.from = t /\ ~threads[t].hit
          /\ threads[t].seen = agent.clusters
          /\ DOMAIN agent.clusters = {"K1", "K2"}
          /\ agent.clusters["K1"] = <<3, 4>>
    /\ "refused" \in DOMAIN agent.cache /\ agent.cache["refused"].value = "K2"

\* C14: once UpdateClusters has returned, no IdentifyCluster call returns,
\* from the cache or otherwise, a cluster id that the table it installed does
\* not hold, whatever calls ran while the update was under way.
C14_NoStaleCluster ==
    (/\ last.op = "IdentifyCluster"
     /\ last.id # ""
     /\ threads[Updater].pc = "idle") => last.id \in DOMAIN agent.clusters

\* The same for the calls that began after the update returned and were
\* answered from the cache.
C14_NoStaleHit ==
    [][(/\ threads[Updater].pc = "idle"
        /\ last'.op = "IdentifyCluster"
        /\ last'.id # ""
        /\ threads'[last'.from].hit
        /\ threads[last'.from].pc = "cache.Get") =>
            last'.id \in DOMAIN agent.clusters]_<<threads, agent>>

-----------------------------------------------------------------------------
(* The chain's properties *)

\* The places in the request's trail where a collaborator was called.
at(ops) == {i \in 1..Len(req.trail) : req.trail[i].op \in ops}
BreakerOps == {"circuitBreaker.Allow", "circuitBreaker.RecordSuccess",
               "circuitBreaker.RecordFailure"}

\* C15: the limiter's Allow is asked before the breaker's Allow; a request the
\* limiter denies is answered 429 RATE_LIMIT_EXCEEDED, and for it the breaker is
\* not consulted, the handler is not called and neither RecordSuccess nor
\* RecordFailure is called.
C15_LimiterFirst ==
    /\ \A j \in at({"circuitBreaker.Allow"}) :
          \E i \in at({"rateLimiter.Allow"}) : i < j
    /\ \A i \in at({"rateLimiter.Allow"}) :
          req.trail[i].ret = FALSE =>
             /\ req.status = 429 /\ req.code = "RATE_LIMIT_EXCEEDED"
             /\ req.pc = "done"
             /\ at(BreakerOps \cup {"proxyHandler"}) = {}

\* The limiter has denied a request and the response is out.
C15_Witness ==
    /\ req.pc = "done" /\ req.status = 429
    /\ Len(req.trail) = 1
    /\ req.trail[1].op = "rateLimiter.Allow" /\ req.trail[1].ret = FALSE

\* C16: once the handler has produced the response, the breaker stage reports
\* RecordFailure for a status of 500 or more and RecordSuccess otherwise, and
\* only after that is the error offered to the sampler.
C16_RecordThenSample ==
    (req.pc = "done" /\ at({"proxyHandler"}) # {}) =>
        /\ at({"circuitBreaker.RecordFailure"}) # {} <=> req.status >= 500
        /\ at({"circuitBreaker.RecordSuccess"}) # {} <=> req.status < 500
        /\ \A i \in at({"errorSampler.SampleError"}) :
              \E j \in at({"circuitBreaker.RecordSuccess", "circuitBreaker.RecordFailure"}) :
                 j < i

\* The breaker's report follows the status (the part of C16 that the chain
\* keeps).
C16_RecordFollowsStatus ==
    (req.pc = "done" /\ at({"proxyHandler"}) # {}) =>
        /\ at({"circuitBreaker.RecordFailure"}) # {} <=> req.status >= 500
        /\ at({"circuitBreaker.RecordSuccess"}) # {} <=> req.status < 500

\* C17: when a proxied request fails and the signature of that failure (the
\* error the chain holds once the handler has answered) maps to cluster K, the
\* breaker call that follows is RecordFailure(K).
C17_FailureCountsAgainstK ==
    \A i \in at({"circuitBreaker.RecordFailure"}) :
       \A res \in IdentifyCluster(ExtractErrorSignature(req)) :
          (res.err = Ok /\ res.id # "") => req.trail[i].id = res.id

\* The id RecordFailure or RecordSuccess is given is the id Allow was given (the
\* part of C17 that the chain keeps).
C17_SameIdAsAdmission ==
    \A i \in at({"circuitBreaker.RecordFailure", "circuitBreaker.RecordSuccess"}) :
       \E j \in at({"circuitBreaker.Allow"}) :
          j < i /\ req.trail[j].id = req.trail[i].id

\* The requests the chain answers before admission control.
Exempt(r) == r.method = "OPTIONS" \/ r.path \in {"/health", "/ready"}

\* C18: a preflight is answered 204, /health 200 and /ready 200 or 503,
\* whatever state the limiter and the breaker are in; these requests take no
\* token from the limiter, make no call on the breaker and are not offered to
\* the sampler.
C18_ProbesSkipAdmission ==
    Exempt(req) =>
       /\ Len(req.trail) = 0
       /\ req.pc \in {"CORS", "HealthCheck", "done"}
       /\ req.pc = "done" =>
             /\ req.method = "OPTIONS" => req.status = 204
             /\ req.method # "OPTIONS" /\ req.path = "/health" => req.status = 200
             /\ req.method # "OPTIONS" /\ req.path = "/ready" => req.status \in {200, 503}

\* While such a request is in the chain, the breaker's map, the bucket and the
\* agent stay as they are.
C18_ProbesLeaveState ==
    [][~(Exempt(req) /\ Exempt(req'))]_<<clusters, probes, tb, agent>>

\* A probe has been answered while a breaker is open.
C18_Witness ==
    /\ req.pc = "done" /\ req.path = "/health" /\ req.status = 200
    /\ \E id \in DOMAIN clusters : clusters[id].State = BreakerStateOpen

-----------------------------------------------------------------------------
(* The clustering engine's properties *)

\* The similarity of an event to a cluster of the table.
likeness(event, c) ==
    CosineSimilarity(EmbedText(buildErrorSignature(event)).vector,
                     ce.clusters[c].Centroid.num)

\* The table is full and the event reaches the threshold with no cluster.
FullWithoutMatch(event) ==
    /\ Cardinality(DOMAIN ce.clusters) >= ce.config.MaxClusters
    /\ \A c \in DOMAIN ce.clusters :
          ~AtLeast(likeness(event, c), ce.config.SimilarityThreshold)

\* C19: when the table holds max_clusters clusters and the event matches no
\* cluster at or above the threshold, ProcessErrorEvent adds the event to the
\* nearest cluster (member appended, count incremented) and returns success.
C19_MergesWhenFull ==
    [][\A event \in ErrorEvents :
         (ProcessErrorEvent(event) /\ FullWithoutMatch(event)) =>
            /\ last'.ret = Ok
            /\ \E c \in DOMAIN ce.clusters :
                  /\ \A d \in DOMAIN ce.clusters :
                        ~Greater(likeness(event, d), likeness(event, c))
                  /\ c \in DOMAIN ce'.clusters
                  /\ ce'.clusters[c].Members =
                        Append(ce.clusters[c].Members, event.EventID)
                  /\ ce'.clusters[c].ErrorCount = ce.clusters[c].ErrorCount + 1
      ]_<<ce, last.op, last.ret>>

\* C20: after any sequence of ProcessErrorEvent and ReCluster, every cluster of
\* the table has as many members as its count says, has a member, and was not
\* updated before it was created.
C20_ClusterWellFormed ==
    \A c \in DOMAIN ce.clusters :
       /\ Len(ce.clusters[c].Members) = ce.clusters[c].ErrorCount
       /\ Len(ce.clusters[c].Members) > 0
       /\ ce.clusters[c].CreateTime <= ce.clusters[c].UpdateTime

\* ReCluster has rebuilt the table, after events were added to clusters, into
\* two clusters of which one has several members.
C20_Witness ==
    /\ last.op = "ReCluster"
    /\ Cardinality(DOMAIN ce.clusters) = 2
    /\ \E c \in DOMAIN ce.clusters :
          /\ Len(ce.clusters[c].Members) >= 2
          /\ ce.clusters[c].CreateTime > StartTime

\* The times an event id occurs in the member lists of the table.
RECURSIVE occurrences(_, _, _)
occurrences(table, ids, e) ==
    IF ids = {} THEN 0
    ELSE LET c == CHOOSE c \in ids : TRUE
         IN Cardinality({i \in 1..Len(table[c].Members) : table[c].Members[i] = e})
            + occurrences(table, ids \ {c}, e)

\* The event has been processed before: the store holds its vector under its id.
Delivered(event) ==
    /\ event.EventID \in DOMAIN ce.memberToCluster
    /\ ce.vectors[event.EventID] = EmbedText(buildErrorSignature(event)).vector

\* C21: processing an event that was processed before leaves the table as it
\* was: its id is in one member list, once, and counted once.
C21_DuplicateIsIdempotent ==
    [][\A event \in ErrorEvents :
         (ProcessErrorEvent(event) /\ Delivered(event)) =>
            /\ ce'.clusters = ce.clusters
            /\ occurrences(ce'.clusters, DOMAIN ce'.clusters, event.EventID) = 1
      ]_<<ce, last.op, last.ret>>

\* The order of the cluster ids of the agent's tables, as strings.
Precedes(a, b) == a = "K1" /\ b = "K2"

\* C22: when several clusters have the same greatest similarity to a vector,
\* the cluster with the smallest id is the one returned, so the result is a
\* function of the table and the vector.
C22_TieGoesToSmallestId ==
    [][\A t \in Callers :
         (threads[t].pc = "findMostSimilarCluster" /\ threads'[t].pc = "cache.Set") =>
            \A k \in matches(t) :
               Precedes(k, threads'[t].id) =>
                  Greater(score(t, threads'[t].id), score(t, k))
      ]_<<threads, agent>>

\* The event ids a cluster lists, and those the table lists.
listed(cluster) == {cluster.Members[i] : i \in 1..Len(cluster.Members)}
memberIDs(table) == UNION {listed(table[c]) : c \in DOMAIN table}

\* C25: a ReCluster pass over at least min_cluster_size vectors, all found in
\* the store, puts every event id that was a member into exactly one cluster
\* of the new table, makes no empty cluster and no more clusters than there
\* were, and leaves the reverse index mapping each member to the cluster that
\* lists it; a pass over fewer vectors leaves the table and the index alone.
C25_ReClusterPartitions ==
    [][ReCluster =>
         IF members(ce.clusters, DOMAIN ce.clusters) < ce.config.MinClusterSize
         THEN /\ ce'.clusters = ce.clusters
              /\ ce'.memberToCluster = ce.memberToCluster
         ELSE /\ \A e \in memberIDs(ce.clusters) :
                    Cardinality({c \in DOMAIN ce'.clusters :
                                    e \in listed(ce'.clusters[c])}) = 1
              /\ \A c \in DOMAIN ce'.clusters : Len(ce'.clusters[c].Members) > 0
              /\ Cardinality(DOMAIN ce'.clusters) <= Cardinality(DOMAIN ce.clusters)
              /\ DOMAIN ce'.memberToCluster = memberIDs(ce'.clusters)
              /\ \A e \in DOMAIN ce'.memberToCluster :
                    /\ ce'.memberToCluster[e] \in DOMAIN ce'.clusters
                    /\ e \in listed(ce'.clusters[ce'.memberToCluster[e]])
      ]_<<ce, last.op, last.ret>>

\* A pass has rebuilt a table of two clusters that list both event ids.
C25_Witness ==
    /\ last.op = "ReCluster"
    /\ members(ce.clusters, DOMAIN ce.clusters) >= ce.config.MinClusterSize
    /\ Cardinality(DOMAIN ce.clusters) = 2
    /\ memberIDs(ce.clusters) = EventIDs
    /\ DOMAIN ce.memberToCluster = EventIDs

-----------------------------------------------------------------------------
(* The clustering engine's properties under concurrent calls *)

Quiet == \A w \in Workers : workers[w].pc = "idle"
Returned == workers["P"].returned + workers["Q"].returned

\* C23: concurrent ProcessErrorEvent calls are serialised, so that no member,
\* count or centroid update is lost: once every call has returned, the table
\* holds one member for each call that returned nil, and every cluster counts
\* the members it lists.
C23_NoLostUpdate ==
    Quiet =>
       /\ members(ce.clusters, DOMAIN ce.clusters) = Returned
       /\ \A c \in DOMAIN ce.clusters :
             ce.clusters[c].ErrorCount = Len(ce.clusters[c].Members)

\* C24: with no re-clustering in between, two events of the same desensitised
\* signature get the same cluster id, also when they are processed at the
\* same time, and no second cluster is made for the signature.
C24_SameSignatureSameCluster ==
    /\ \A v, w \in Workers :
          (/\ workers[v].ClusterID # NoCluster
           /\ workers[w].ClusterID # NoCluster
           /\ buildErrorSignature(Deref(workers[v].event))
                 = buildErrorSignature(Deref(workers[w].event)))
          => workers[v].ClusterID = workers[w].ClusterID
    /\ \A c, d \in DOMAIN ce.clusters :
          (ce.clusters[c].CreateTime = ce.clusters[d].CreateTime
             /\ ce.clusters[c].Centroid = ce.clusters[d].Centroid
             /\ Len(ce.clusters[c].Members) = 1 /\ Len(ce.clusters[d].Members) = 1)
          => c = d

-----------------------------------------------------------------------------
(* The config watcher's properties *)

\* The watcher has started and has handled every event of its stream.
Drained ==
    /\ watcher.pc = "started"
    /\ Deref(watcher.watchChan) > Len(watcher.events)

\* C26: once the watcher has started and the store has stopped changing, the
\* local map equals the store's content under /policies/: no put or delete
\* committed between the prefix load and the opening of the stream is missed.
\* With every event of the stream handled, nothing further changes the map,
\* so each key that holds a policy record must then be in the map with that
\* policy, and no key may be in the map that the store does not hold.
C26_MapFollowsStore ==
    Drained =>
       /\ \A k \in DOMAIN watcher.kv :
             Unmarshal(watcher.kv[k]).err = Ok =>
                /\ k \in DOMAIN watcher.policies
                /\ watcher.policies[k] = Unmarshal(watcher.kv[k]).policy
       /\ DOMAIN watcher.policies \subseteq DOMAIN watcher.kv

\* C27: a put event whose value is not a policy record leaves the map and the
\* started callbacks as they were, and the goroutine goes on to the next
\* event; every other event it handles takes effect, whatever came before: a
\* put of a policy record is stored under its key and handed to each callback
\* registered, a delete removes the key.
C27_InvalidPutIsSkipped ==
    [][(watcher.watchChan # Nil /\ watcher'.watchChan # watcher.watchChan) =>
         LET event == watcher.events[Deref(watcher.watchChan)]
             unmarshalled == Unmarshal(event.Value)
         IN /\ watcher'.watchChan = Ptr(Deref(watcher.watchChan) + 1)
            /\ IF event.Type = "PUT" /\ unmarshalled.err # Ok
               THEN /\ watcher'.policies = watcher.policies
                    /\ watcher'.goroutines = watcher.goroutines
                    /\ watcher'.delivered = watcher.delivered
               ELSE IF event.Type = "PUT"
               THEN /\ event.Key \in DOMAIN watcher'.policies
                    /\ watcher'.policies[event.Key] = unmarshalled.policy
                    /\ \A cb \in watcher.callbacks :
                          \E g \in watcher'.goroutines :
                             /\ g.cb = cb
                             /\ g.clusterID = event.Key
                             /\ g.policy = unmarshalled.policy
               ELSE event.Key \notin DOMAIN watcher'.policies
      ]_watcher

\* The goroutine has just skipped a put of garbage under a key that the map
\* has a policy for, with the gateway's callback registered.
C27_Witness ==
    /\ last.op = "handleConfigEvent"
    /\ last.ret # Ok
    /\ last.id \in DOMAIN watcher.policies
    /\ last.id \in DOMAIN watcher.kv
    /\ Unmarshal(watcher.kv[last.id]).err # Ok
    /\ watcher.callbacks # {}

\* C28: a policy whose expire_time is before now is never applied: neither the
\* load nor a put event hands it to OnPolicyUpdate, and GetPolicy does not
\* return it.
C28_ExpiredNeverApplied ==
    /\ \A g \in watcher.goroutines \cup watcher.delivered :
          ~(g.at > g.policy.ExpireTime)
    /\ \A k \in PolicyKeys :
          GetPolicy(k) # Nil => ~(now > Deref(GetPolicy(k)).ExpireTime)

\* C29: every policy in the store when Gateway.Start runs reaches the
\* gateway's OnPolicyUpdate. With the store never written after the start, the
\* stream drained and every goroutine run, nothing is left that could still
\* deliver one, so each policy record of the store that has not expired must
\* then have been delivered.
C29_StartupPoliciesDelivered ==
    (Drained /\ watcher.events = <<>> /\ watcher.goroutines = {}) =>
       \A k \in DOMAIN watcher.kv :
          (Unmarshal(watcher.kv[k]).err = Ok
             /\ ~(now > Unmarshal(watcher.kv[k]).policy.ExpireTime))
          => \E g \in watcher.delivered :
                /\ g.cb = "gateway"
                /\ g.clusterID = k
                /\ g.policy = Unmarshal(watcher.kv[k]).policy

-----------------------------------------------------------------------------
(* The background goroutines' properties *)

\* C30: once Stop has been called on the clustering engine (its first
\* statement closes stopCh), no ReCluster pass starts.
C30_NoPassAfterStop ==
    [][last'.op = "ReCluster" => ce.stopCh = "open"]_<<ce, last.op>>

-----------------------------------------------------------------------------
(* The clustering engine's lock *)

\* C31: the engine does not hold its lock while a call of the vector store is
\* in progress: no goroutine is inside vectorDB.AddVector with ce.mutex held.
C31_NoLockAcrossStoreCall ==
    \A w \in Workers : workers[w].pc = "vectorDB.AddVector" => ce.mutex # w

\* C40: when ProcessErrorEvent returns nil, the event's id is a member of the
\* cluster named in event.ClusterID in the current table, and the reverse
\* index maps it to that cluster, also when ReCluster runs between the lookup
\* and the insertion. Stated for the calls of one goroutine while no other
\* goroutine has called, so that only ReCluster runs beside it.
C40_ReturnedEventIsMember ==
    [][(/\ workers'["Q"] = NoWorkers["Q"]
        /\ workers'["P"].returned = workers["P"].returned + 1)
       => LET id == Deref(workers["P"].event).EventID
              ClusterID == workers'["P"].ClusterID
          IN /\ ClusterID \in DOMAIN ce'.clusters
             /\ id \in listed(ce'.clusters[ClusterID])
             /\ id \in DOMAIN ce'.memberToCluster
             /\ ce'.memberToCluster[id] = ClusterID
      ]_workers

-----------------------------------------------------------------------------
(* The desensitizer's properties *)

\* C32: Desensitize and PreprocessText apply their patterns in one fixed
\* order, so that two runs on the same text return the same output.
C32_SameTextSameOutput ==
    \A i, j \in 1..Len(run.done) : run.done[i] = run.done[j]

-----------------------------------------------------------------------------
(* The circuit breaker's scenarios and frame conditions *)

\* C33: with recovery_increment = 1.0, on a breaker whose failure count has
\* just reached failure_threshold with no success recorded: the Allow that
\* follows the tripping failure is denied; an Allow made once the recovery
\* timeout has passed is admitted and leaves the breaker HALF_OPEN; and a
\* RecordSuccess for that single probing request leaves the breaker CLOSED.
C33_TripProbeRecover ==
    [][\A id \in DOMAIN clusters :
          LET b == clusters[id] IN
          (/\ id # ""
           /\ last'.id = id
           /\ b.Config.RecoveryIncrement = 100
           /\ b.FailureCount = b.Config.FailureThreshold
           /\ b.SuccessCount = 0) =>
             /\ (/\ last.op = "RecordFailure"
                 /\ last.id = id
                 /\ last.from = BreakerStateClosed
                 /\ last'.op = "Allow") =>
                   last'.ret = FALSE
             /\ (/\ b.State = BreakerStateOpen
                 /\ now > b.NextRetry
                 /\ last'.op = "Allow") =>
                   /\ last'.ret = TRUE
                   /\ clusters'[id].State = BreakerStateHalfOpen
             /\ (/\ b.State = BreakerStateHalfOpen
                 /\ last.op = "Allow"
                 /\ last.id = id
                 /\ last.from = BreakerStateOpen
                 /\ last'.op = "RecordSuccess") =>
                   clusters'[id].State = BreakerStateClosed
      ]_<<clusters, last.op>>

-----------------------------------------------------------------------------
(* The token bucket's range *)

\* The tokens a refill at the clock reading now leaves in the bucket.
afterRefill == IF tb.tokens + credit(tb, now) > tb.capacity
               THEN tb.capacity
               ELSE tb.tokens + credit(tb, now)

\* C34: every call on the bucket leaves 0 <= tokens <= capacity; AllowN(n)
\* returns true exactly when the tokens after the refill are at least n and
\* then removes exactly n of them, and returns false without removing any.
C34_TokensWithinCapacity ==
    [][/\ 0 <= tb'.tokens
       /\ tb'.tokens <= tb'.capacity
       /\ last'.op = "TokenBucket.AllowN" =>
             LET n == Deref(last'.arg) IN
             /\ last'.ret = (afterRefill >= n)
             /\ tb'.tokens = IF afterRefill >= n THEN afterRefill - n ELSE afterRefill
      ]_<<tb, last.op, last.arg>>

C34_Witness ==
    /\ last.op = "TokenBucket.AllowN"
    /\ last.ret = TRUE
    /\ Deref(last.arg) = MaxCapacity
    /\ tb.tokens = 0
    /\ tb.lastRefill = now
    /\ now > StartTime

\* C35: on a CLOSED breaker the failure count only grows: a RecordSuccess
\* leaves it as it was and the breaker CLOSED, every RecordFailure adds one,
\* no other call changes it, and the RecordFailure that makes the count reach
\* failure_threshold opens the breaker, whatever successes were recorded in
\* between and whenever the earlier failures were recorded.
C35_FailuresAccumulate ==
    [][\A id \in DOMAIN clusters :
          clusters[id].State = BreakerStateClosed =>
             LET b == clusters[id]
                 failed == last'.op = "RecordFailure" /\ last'.id = id /\ id # ""
             IN
             /\ clusters'[id].FailureCount = b.FailureCount + (IF failed THEN 1 ELSE 0)
             /\ (last'.op = "RecordSuccess" /\ last'.id = id) =>
                   clusters'[id].State = BreakerStateClosed
             /\ failed =>
                   (clusters'[id].State = BreakerStateOpen
                      <=> b.FailureCount + 1 >= b.Config.FailureThreshold)
      ]_<<clusters, last.op>>

C35_Witness ==
    /\ last.op = "RecordFailure"
    /\ last.from = BreakerStateClosed
    /\ clusters[last.id].State = BreakerStateOpen
    /\ clusters[last.id].FailureCount = MaxThreshold
    /\ clusters[last.id].SuccessCount >= 1
    /\ clusters[last.id].NextRetry = now + clusters[last.id].Config.RecoveryTimeout
    /\ now > StartTime + 1

\* The policy an entry holds is of another type than circuit-break.
otherPolicy(p) == p # Nil /\ Deref(p).PolicyType # PolicyTypeCircuitBreak

\* C38: UpdatePolicy with a policy of another type than circuit-break changes
\* nothing of an existing breaker but the policy it holds: state, counters,
\* retry time and configuration stay.  For a cluster without a breaker it
\* creates one CLOSED with the start-up configuration and zero counters, and
\* from then on a RecordFailure for that cluster is counted and opens the
\* breaker when the count reaches failure_threshold.
C38_OtherPolicyKeepsBreaker ==
    [][/\ (last'.op = "UpdatePolicy" /\ otherPolicy(last'.arg)) =>
             LET id == last'.id
                 pre == IF Has(id) THEN clusters[id] ELSE newBreaker
             IN
             /\ last'.ret = Ok
             /\ clusters' = store(id, [pre EXCEPT !.Policy = last'.arg])
             /\ ~Has(id) =>
                   /\ clusters'[id].State = BreakerStateClosed
                   /\ clusters'[id].Config = config
                   /\ clusters'[id].FailureCount = 0
                   /\ clusters'[id].SuccessCount = 0
       /\ \A id \in DOMAIN clusters :
             (/\ otherPolicy(clusters[id].Policy)
              /\ id # ""
              /\ last'.op = "RecordFailure"
              /\ last'.id = id) =>
                /\ clusters'[id].FailureCount = clusters[id].FailureCount + 1
                /\ (/\ clusters[id].State = BreakerStateClosed
                    /\ clusters'[id].FailureCount >= config.FailureThreshold) =>
                      clusters'[id].State = BreakerStateOpen
      ]_<<clusters, last.op>>

C38_Witness ==
    /\ last.op = "UpdatePolicy"
    /\ otherPolicy(last.arg)
    /\ Deref(last.arg).Severity >= ImmediateBreakSeverity
    /\ last.from = BreakerStateHalfOpen
    /\ clusters[last.id].State = BreakerStateHalfOpen
    /\ clusters[last.id].FailureCount >= 1
    /\ clusters[last.id].Config.RecoveryTimeout # config.RecoveryTimeout

-----------------------------------------------------------------------------
(* The chain's denials *)

\* The calls a request that went on past the breaker makes.
PastBreakerOps ==
    {"proxyHandler", "circuitBreaker.RecordFailure", "circuitBreaker.RecordSuccess",
     "errorSampler.SampleError"}

\* C37: a request the breaker denies is answered 503 with the code
\* CIRCUIT_BREAKER_OPEN and ends there: it never reaches the proxy handler, no
\* RecordFailure or RecordSuccess is called for it and it is not offered to
\* the error sampler; the denial leaves every breaker entry (failure count,
\* success count, retry time) as it was.
C37_DenialEndsRequest ==
    [][req'.code = "CIRCUIT_BREAKER_OPEN" =>
          /\ req'.status = 503
          /\ req'.pc = "done"
          /\ \A i \in 1..Len(req'.trail) : req'.trail[i].op \notin PastBreakerOps
          /\ req.pc = "CircuitBreaker" =>
                /\ last'.op = "Allow"
                /\ last'.ret = FALSE
                /\ clusters' = clusters
      ]_<<req.pc, req.seq, req.code, clusters>>

C37_Witness ==
    /\ req.pc = "done"
    /\ req.status = 503
    /\ req.code = "CIRCUIT_BREAKER_OPEN"
    /\ req.clusterID # ""
    /\ clusters[req.clusterID].State = BreakerStateOpen
    /\ clusters[req.clusterID].FailureCount >= 1
    /\ last.op = "Allow"
    /\ last.ret = FALSE

-----------------------------------------------------------------------------
(* The order of policy updates *)

\* The positions of the put events of a policy record on key k.
puts(k) ==
    {i \in 1..Len(watcher.events) :
        /\ watcher.events[i].Type = "PUT"
        /\ watcher.events[i].Key = k
        /\ Unmarshal(watcher.events[i].Value).err = Ok}

\* The callback has been called with the policy of the event at position i.
observed(i) ==
    \E g \in watcher.delivered :
       /\ g.clusterID = watcher.events[i].Key
       /\ g.policy = Unmarshal(watcher.events[i].Value).policy

\* C36: when two puts on the same key have both been handled and the
\* callback has run for both, the limiter and the breaker of that cluster
\* hold the policy of the put committed last.
C36_LaterPolicyApplied ==
    \A k \in PolicyKeys : \A i, j \in puts(k) :
       (/\ i < j
        /\ Drained
        /\ watcher.goroutines = {}
        /\ observed(i)
        /\ observed(j)) =>
          /\ k \in DOMAIN watcher.applied
          /\ watcher.applied[k] = Unmarshal(watcher.events[j].Value).policy

-----------------------------------------------------------------------------
(* Deleted policies *)

\* The watcher's goroutine is about to handle a delete of key k.
deleting(k) ==
    /\ watcher.watchChan # Nil
    /\ Deref(watcher.watchChan) <= Len(watcher.events)
    /\ watcher.events[Deref(watcher.watchChan)].Type = "DELETE"
    /\ watcher.events[Deref(watcher.watchChan)].Key = k

\* C39: handling a delete of /policies/K removes K from the watcher's map and
\* leaves the breaker's entries as they are, and so does the gateway's
\* OnPolicyDelete: the entry of K keeps its state, retry time, counters and
\* configuration.  No step removes a breaker entry.
C39_DeleteKeepsBreaker ==
    [][/\ DOMAIN clusters \subseteq DOMAIN clusters'
       /\ \A k \in PolicyKeys :
             /\ (deleting(k) /\ last'.op = "handleConfigEvent") =>
                   /\ k \notin DOMAIN watcher'.policies
                   /\ clusters' = clusters
             /\ (last'.op = "OnPolicyDelete" /\ last'.id = k) =>
                   clusters' = clusters
      ]_<<clusters, watcher.policies, watcher.watchChan, last.op>>

C39_Witness ==
    /\ last.op = "OnPolicyDelete"
    /\ PolicyCluster \notin DOMAIN watcher.policies
    /\ Has(PolicyCluster)
    /\ clusters[PolicyCluster].State = BreakerStateOpen
    /\ clusters[PolicyCluster].FailureCount >= 1
    /\ clusters[PolicyCluster].Config.RecoveryTimeout # config.RecoveryTimeout
    /\ now <= clusters[PolicyCluster].NextRetry

====
